---- MODULE Spec2Model ----
(***************************************************************************)
(* HybridCAD polygon mesh: MeshObject (vertices, edges, faces, selection)  *)
(* and the MeshManager operators, modelled from src/src/MeshManager.cpp    *)
(* and src/include/MeshManager.h.                                          *)
(*                                                                         *)
(* One MeshObject is modelled.  A std::vector is a sequence (C++ index i   *)
(* is TLA+ index i+1), a std::unordered_set<int> is a set of integers.     *)
(* Coordinates are counted in halves of a unit, so that the box corner     *)
(* 0.5 of createPrimitiveMesh is the integer 1.                            *)
(***************************************************************************)
EXTENDS Integers, Sequences, FiniteSets, TLC

\* The field names of the records below, each with the struct or value it
\* belongs to.  TLC orders a record's fields by the first occurrence of their
\* names in the module, and every record below lists its fields in this order.
Fields ==
    [op |-> "call", position |-> "Vertex", vertex1 |-> "Edge", vertex2 |-> "Edge",
     v0 |-> "Triangle", v1 |-> "Triangle", v2 |-> "Triangle",
     vertexIndices |-> "Face", vertices |-> "MeshFace", edges |-> "mesh",
     faces |-> "mesh", normal |-> "Vertex, MeshFace, Triangle, Face",
     id |-> "Vertex, Edge, MeshFace", selected |-> "Vertex, Edge, MeshFace",
     adjacentFaces |-> "Edge", edgeId |-> "local", vertexId |-> "local",
     faceId |-> "local", selectedVertices |-> "mesh", selectedEdges |-> "mesh",
     selectedFaces |-> "mesh", triangles |-> "call", type |-> "call",
     addToSelection |-> "call", faceIds |-> "call", edgeIds |-> "call",
     vertexIds |-> "call", direction |-> "call", distance |-> "call",
     insetAmount |-> "call", edgeIds1 |-> "call", edgeIds2 |-> "call",
     start |-> "call", end |-> "call", iterations |-> "call", factor |-> "call",
     ratio |-> "call", levels |-> "call", filename |-> "call",
     min |-> "Box", max |-> "Box", objectA |-> "BooleanObject",
     objectB |-> "BooleanObject", operation |-> "BooleanObject",
     result |-> "BooleanObject", object |-> "call", rayOrigin |-> "call",
     meshB |-> "call", mesh |-> "call", mode |-> "call", elems |-> "local",
     selection |-> "local", performUnion |-> "call", performDifference |-> "call",
     performIntersection |-> "call", tool |-> "call", action |-> "call",
     button |-> "call", picked |-> "call", made |-> "call", targets |-> "call",
     objects |-> "CADViewer", selectedObjects |-> "CADViewer",
     contextMenuObject |-> "CADViewer", activeTool |-> "CADViewer",
     placementState |-> "CADViewer", isSketchingActive |-> "CADViewer",
     sketchPoints |-> "CADViewer", allocated |-> "CADViewer", name |-> "call",
     filePath |-> "call", document |-> "call", documents |-> "PartManager",
     activeDocument |-> "PartManager", assembly |-> "call", part |-> "PartInstance",
     instanceName |-> "PartInstance", radius |-> "Cylinder, Sphere",
     bottomRadius |-> "Cone", topRadius |-> "Cone", height |-> "Cylinder, Cone",
     segments |-> "Cylinder, Sphere, Cone", center |-> "Sphere",
     meshGenerated |-> "GeometryPrimitive"]

VARIABLES
    m_vertices,          \* std::vector<Vertex>
    m_edges,             \* std::vector<Edge>
    m_faces,             \* std::vector<MeshFace>
    m_selectedVertices,  \* std::unordered_set<int>
    m_selectedEdges,     \* std::unordered_set<int>
    m_selectedFaces,     \* std::unordered_set<int>
    m_nextVertexId,      \* int, set by the constructor
    m_nextEdgeId,        \* int, set by the constructor
    m_nextFaceId,        \* int, set by the constructor
    objects,             \* the Box and BooleanObject instances made so far
    m_selectionMode,     \* MeshManager: SelectionMode
    m_objects,           \* CADViewer: CADObjectList
    m_selectedObjects,   \* CADViewer: std::vector<CADObjectPtr>
    m_contextMenuObject, \* CADViewer: CADObjectPtr, 0 for a null pointer
    m_activeTool,        \* CADViewer: ActiveTool
    m_placementState,    \* CADViewer: PlacementState
    m_isSketchingActive, \* CADViewer: bool
    m_sketchPoints,      \* CADViewer: std::vector<QVector3D>
    allocated,           \* the CADObjects made so far are 1..allocated
    m_documents,         \* PartManager: std::vector<std::shared_ptr<PartDocument>>
    m_activeDocument,    \* PartManager: std::shared_ptr<PartDocument>, 0 for null
    m_partInstances,     \* Assembly: std::vector<PartInstance>, per assembly
    m_parent,            \* CADObject: CADObject*, per object, 0 for null
    lastCall,            \* the member function that ran last, with its arguments
    ret                  \* what that call returned ("void" for a void function)

geomVars == <<m_vertices, m_edges, m_faces>>
selVars == <<m_selectedVertices, m_selectedEdges, m_selectedFaces>>
idVars == <<m_nextVertexId, m_nextEdgeId, m_nextFaceId>>
meshVars == <<geomVars, selVars, idVars>>
viewerVars ==
    <<m_objects, m_selectedObjects, m_contextMenuObject, m_activeTool,
      m_placementState, m_isSketchingActive, m_sketchPoints, allocated>>
partVars == <<m_documents, m_activeDocument, m_partInstances, m_parent>>
\* what a member function of one class leaves alone: the objects of the others
outsideMesh == <<objects, m_selectionMode, viewerVars, partVars>>
outsideCsg == <<meshVars, m_selectionMode, viewerVars, partVars>>
outsideViewer == <<meshVars, objects, m_selectionMode, partVars>>
outsidePart == <<meshVars, objects, m_selectionMode, viewerVars>>
vars == <<meshVars, objects, m_selectionMode, viewerVars, partVars, lastCall, ret>>

----------------------------------------------------------------------------
(* Bounds of the input sets.                                               *)

\* SpecCreate: triangle lists and geometry handed to the create functions
MaxTris == 2
MaxVerts == 2
MaxFaces == 1
MaxRing == 3
\* SpecTopo: the ring positions, over all faces, of a face list handed to
\* buildTopology through createFromGeometry
TopoSteps == 6

----------------------------------------------------------------------------
(* Machine integers.                                                       *)

\* `i < v.size()` for an int i: i is converted to size_t, where a negative i
\* becomes 2^64 + i, a value no vector size reaches, so the comparison is
\* false for every negative i
IndexBelowSize(i, size) == i >= 0 /\ i < size

----------------------------------------------------------------------------
(* CADTypes.h / MeshManager.h value types.                                 *)

Point3D(x, y, z) == <<x, y, z>>
Vector3D(x, y, z) == <<x, y, z>>

\* Vertex(pos, vertexId): normal is a default Vector3D, selected(false)
Vertex(pos, vertexId) ==
    [position |-> pos, normal |-> Vector3D(0, 0, 0), id |-> vertexId,
     selected |-> FALSE]

\* Edge(v1, v2, edgeId): selected(false), adjacentFaces empty
Edge(v1, v2, edgeId) ==
    [vertex1 |-> v1, vertex2 |-> v2, id |-> edgeId, selected |-> FALSE,
     adjacentFaces |-> <<>>]

\* MeshFace(verts, faceId): normal is a default Vector3D, selected(false)
MeshFace(verts, faceId) ==
    [vertices |-> verts, normal |-> Vector3D(0, 0, 0), id |-> faceId,
     selected |-> FALSE]

\* struct Triangle { Point3D v0, v1, v2; Vector3D normal; }
Triangle(v0, v1, v2, n) == [v0 |-> v0, v1 |-> v1, v2 |-> v2, normal |-> n]

\* struct Face { std::vector<int> vertexIndices; Vector3D normal; }
Face(idx) == [vertexIndices |-> idx, normal |-> Vector3D(0, 0, 0)]

SeqsUpTo(S, n) == UNION {[1..k -> S] : k \in 0..n}

Min(S) == CHOOSE x \in S : \A y \in S : x <= y

----------------------------------------------------------------------------
(* MeshObject::buildTopology                                               *)

\* the test of buildTopology that matches an edge in the direction it was
\* stored only
EdgeMatches_Directed(edge, v1, v2) == edge.vertex1 = v1 /\ edge.vertex2 = v2

\* (edge.vertex1 == v1 && edge.vertex2 == v2) ||
\* (edge.vertex1 == v2 && edge.vertex2 == v1)
EdgeMatches(edge, v1, v2) ==
    \/ edge.vertex1 = v1 /\ edge.vertex2 = v2
    \/ edge.vertex1 = v2 /\ edge.vertex2 = v1

\* buildTopology that finds the shared edge and forgets to record the face
PushFace_Forgotten(edges, k, faceId) == edges

\* edge.adjacentFaces.push_back(face.id) on the edge at TLA+ index k
PushFace(edges, k, faceId) ==
    [edges EXCEPT ![k].adjacentFaces = Append(@, faceId)]

\* the new edge numbered after the face it was found in, not by edgeId++
PushEdge_FaceId(edges, v1, v2, edgeId, faceId) ==
    Append(edges, [Edge(v1, v2, faceId) EXCEPT !.adjacentFaces = <<faceId>>])

\* Edge newEdge(v1, v2, edgeId++); newEdge.adjacentFaces.push_back(face.id);
\* m_edges.push_back(newEdge)
PushEdge(edges, v1, v2, edgeId, faceId) ==
    Append(edges, [Edge(v1, v2, edgeId) EXCEPT !.adjacentFaces = <<faceId>>])

\* for (size_t i = 0; i < face.vertices.size(); ++i), from C++ index i on;
\* edges is m_edges and edgeId the local counter.  The scan of m_edges stops
\* at the first edge that matches (break).
RECURSIVE TopologyRing(_, _, _, _)
TopologyRing(edges, edgeId, face, i) ==
    LET n == Len(face.vertices)
        v1 == face.vertices[i + 1]
        v2 == face.vertices[((i + 1) % n) + 1]
        hits == {k \in 1..Len(edges) : EdgeMatches(edges[k], v1, v2)}
    IN  IF i >= n THEN [edges |-> edges, edgeId |-> edgeId]
        ELSE IF hits # {}
        THEN TopologyRing(PushFace(edges, Min(hits), face.id), edgeId, face, i + 1)
        ELSE TopologyRing(PushEdge(edges, v1, v2, edgeId, face.id), edgeId + 1,
                          face, i + 1)

\* for (const auto& face : m_faces), from C++ index f on
RECURSIVE TopologyFaces(_, _, _)
TopologyFaces(st, faces, f) ==
    IF f >= Len(faces) THEN st
    ELSE TopologyFaces(TopologyRing(st.edges, st.edgeId, faces[f + 1], 0),
                       faces, f + 1)

\* the value of m_edges after buildTopology() on the face list `faces`
buildTopology(faces) ==
    TopologyFaces([edges |-> <<>>, edgeId |-> 0], faces, 0).edges

----------------------------------------------------------------------------
(* MeshObject::createFromTriangles / createFromGeometry                    *)

\* the loop over the triangles; st = [vertices, faces, vertexId, faceId]
RECURSIVE TrianglesLoop(_, _, _)
TrianglesLoop(st, triangles, t) ==
    IF t >= Len(triangles) THEN st
    ELSE LET tri == triangles[t + 1]
             a == st.vertexId
             face == [MeshFace(<<a, a + 1, a + 2>>, st.faceId)
                         EXCEPT !.normal = tri.normal]
         IN  TrianglesLoop(
                 [vertices |-> st.vertices \o <<Vertex(tri.v0, a),
                                                Vertex(tri.v1, a + 1),
                                                Vertex(tri.v2, a + 2)>>,
                  faces |-> Append(st.faces, face),
                  vertexId |-> a + 3,
                  faceId |-> st.faceId + 1],
                 triangles, t + 1)

\* [vertices, edges, faces] after createFromTriangles(triangles)
createFromTriangles(triangles) ==
    LET st == TrianglesLoop([vertices |-> <<>>, faces |-> <<>>,
                             vertexId |-> 0, faceId |-> 0], triangles, 0)
    IN  [vertices |-> st.vertices, edges |-> buildTopology(st.faces),
         faces |-> st.faces]

\* for (const auto& vertex : vertices) m_vertices.emplace_back(vertex, vertexId++)
RECURSIVE GeometryVertices(_, _, _)
GeometryVertices(acc, vertices, vertexId) ==
    IF vertexId >= Len(vertices) THEN acc
    ELSE GeometryVertices(Append(acc, Vertex(vertices[vertexId + 1], vertexId)),
                          vertices, vertexId + 1)

\* for (const auto& face : faces) { MeshFace meshFace(face.vertexIndices, faceId++); ... }
RECURSIVE GeometryFaces(_, _, _)
GeometryFaces(acc, faces, faceId) ==
    IF faceId >= Len(faces) THEN acc
    ELSE GeometryFaces(
             Append(acc, [MeshFace(faces[faceId + 1].vertexIndices, faceId)
                             EXCEPT !.normal = faces[faceId + 1].normal]),
             faces, faceId + 1)

\* [vertices, edges, faces] after createFromGeometry(vertices, faces)
createFromGeometry(vertices, faces) ==
    LET fs == GeometryFaces(<<>>, faces, 0)
    IN  [vertices |-> GeometryVertices(<<>>, vertices, 0),
         edges |-> buildTopology(fs),
         faces |-> fs]

----------------------------------------------------------------------------
(* MeshObject::isValid                                                     *)

\* isValid with `>` for `>=`: the id one past the end passes
RECURSIVE ValidRing_PastEnd(_, _, _)
ValidRing_PastEnd(ring, i, size) ==
    IF i >= Len(ring) THEN TRUE
    ELSE IF ring[i + 1] < 0 \/ ring[i + 1] > size THEN FALSE
    ELSE ValidRing_PastEnd(ring, i + 1, size)

\* the scan of one face ring from C++ index i on: false at the first id that
\* is negative or not below m_vertices.size()
RECURSIVE ValidRing(_, _, _)
ValidRing(ring, i, size) ==
    IF i >= Len(ring) THEN TRUE
    ELSE IF ring[i + 1] < 0 \/ ~IndexBelowSize(ring[i + 1], size) THEN FALSE
    ELSE ValidRing(ring, i + 1, size)

RECURSIVE ValidFaces(_, _, _)
ValidFaces(faces, f, size) ==
    IF f >= Len(faces) THEN TRUE
    ELSE IF ~ValidRing(faces[f + 1].vertices, 0, size) THEN FALSE
    ELSE ValidFaces(faces, f + 1, size)

\* isValid() of a mesh with the given vertices and faces
isValidMesh(vertices, faces) == ValidFaces(faces, 0, Len(vertices))

isValid == isValidMesh(m_vertices, m_faces)

----------------------------------------------------------------------------
(* Input sets.                                                             *)

\* positions a caller hands in
Points == {Point3D(0, 0, 0), Point3D(2, 0, 0)}

\* triangle normals a caller hands in
Normals == {Vector3D(0, 0, 2)}

\* triangles a caller hands in: the first two corners vary, and may
\* coincide; the third is a point of its own
Triangles == {Triangle(a, b, Point3D(0, 2, 0), n) : a \in Points, b \in Points,
                                                    n \in Normals}

\* vertex indices a face may name with nv vertices in mind: one below the
\* range, the range, and one above it
Indices(nv) == -1..nv

FaceLists(nv, maxFaces, maxRing) ==
    SeqsUpTo({Face(r) : r \in SeqsUpTo(Indices(nv), maxRing)}, maxFaces)

\* createPrimitiveMesh, case PRIMITIVE_BOX
BoxVertices ==
    <<Point3D(-1, -1, -1), Point3D(1, -1, -1), Point3D(1, 1, -1),
      Point3D(-1, 1, -1), Point3D(-1, -1, 1), Point3D(1, -1, 1),
      Point3D(1, 1, 1), Point3D(-1, 1, 1)>>

BoxFaces ==
    <<Face(<<0, 1, 2, 3>>), Face(<<4, 7, 6, 5>>), Face(<<0, 4, 5, 1>>),
      Face(<<2, 6, 7, 3>>), Face(<<0, 3, 7, 4>>), Face(<<1, 5, 6, 2>>)>>

----------------------------------------------------------------------------
(* The state machine.                                                      *)

\* Assemblies and the objects they can hold.  A CADObject* is the number of
\* the object, 0 for null; the parts are 1..MaxParts and the assemblies,
\* CADObjects themselves, follow them
MaxParts == 2
MaxAssemblies == 2
Parts == 1..MaxParts
Assemblies == (MaxParts + 1)..(MaxParts + MaxAssemblies)
CADObjects == Parts \cup Assemblies

\* MeshObject::MeshObject(name)
Init ==
    /\ m_vertices = <<>>
    /\ m_edges = <<>>
    /\ m_faces = <<>>
    /\ m_selectedVertices = {}
    /\ m_selectedEdges = {}
    /\ m_selectedFaces = {}
    /\ m_nextVertexId = 0
    /\ m_nextEdgeId = 0
    /\ m_nextFaceId = 0
    /\ objects = <<>>
    /\ m_selectionMode = "VERTEX"
    /\ m_objects = <<>>
    /\ m_selectedObjects = <<>>
    /\ m_contextMenuObject = 0
    /\ m_activeTool = "SELECT"
    /\ m_placementState = "NONE"
    /\ m_isSketchingActive = FALSE
    /\ m_sketchPoints = <<>>
    /\ allocated = 0
    /\ m_documents = <<>>
    /\ m_activeDocument = 0
    /\ m_partInstances = [a \in Assemblies |-> <<>>]
    /\ m_parent = [o \in CADObjects |-> 0]
    /\ lastCall = [op |-> "MeshObject"]
    /\ ret = "void"

SetGeometry(g) ==
    /\ m_vertices' = g.vertices
    /\ m_edges' = g.edges
    /\ m_faces' = g.faces

\* createFromTriangles without the three clear() calls
CreateFromTriangles_NoClear(triangles) ==
    /\ m_vertices' = m_vertices \o createFromTriangles(triangles).vertices
    /\ m_faces' = m_faces \o createFromTriangles(triangles).faces
    /\ m_edges' = buildTopology(m_faces')
    /\ lastCall' = [op |-> "createFromTriangles", triangles |-> triangles]
    /\ ret' = "void"
    /\ UNCHANGED outsideMesh
    /\ UNCHANGED <<selVars, idVars>>

CreateFromTriangles(triangles) ==
    /\ SetGeometry(createFromTriangles(triangles))
    /\ lastCall' = [op |-> "createFromTriangles", triangles |-> triangles]
    /\ ret' = "void"
    /\ UNCHANGED outsideMesh
    /\ UNCHANGED <<selVars, idVars>>

CreateFromGeometry(vertices, faces) ==
    /\ SetGeometry(createFromGeometry(vertices, faces))
    /\ lastCall' = [op |-> "createFromGeometry", vertices |-> vertices,
                    faces |-> faces]
    /\ ret' = "void"
    /\ UNCHANGED outsideMesh
    /\ UNCHANGED <<selVars, idVars>>

\* MeshManager::createPrimitiveMesh(type, name): a new MeshObject, filled by
\* createFromGeometry for PRIMITIVE_BOX and left empty for every other type
CreatePrimitiveMesh(type) ==
    /\ SetGeometry(IF type = "PRIMITIVE_BOX"
                   THEN createFromGeometry(BoxVertices, BoxFaces)
                   ELSE [vertices |-> <<>>, edges |-> <<>>, faces |-> <<>>])
    /\ m_selectedVertices' = {}
    /\ m_selectedEdges' = {}
    /\ m_selectedFaces' = {}
    /\ m_nextVertexId' = 0
    /\ m_nextEdgeId' = 0
    /\ m_nextFaceId' = 0
    /\ lastCall' = [op |-> "createPrimitiveMesh", type |-> type]
    /\ ret' = "mesh"
    /\ UNCHANGED outsideMesh

ObjectTypes == {"PRIMITIVE_BOX", "PRIMITIVE_CYLINDER"}

CreateTriangles ==
    \E triangles \in SeqsUpTo(Triangles, MaxTris) :
        CreateFromTriangles(triangles)

CreateGeometry ==
    \E nv \in 0..MaxVerts :
        \E vertices \in [1..nv -> {Point3D(0, 0, 0)}],
           faces \in FaceLists(MaxVerts, MaxFaces, MaxRing) :
            CreateFromGeometry(vertices, faces)

CreatePrimitive == \E type \in ObjectTypes : CreatePrimitiveMesh(type)

NextCreate == CreateTriangles \/ CreateGeometry \/ CreatePrimitive

SpecCreate == Init /\ [][NextCreate]_vars

----------------------------------------------------------------------------
(* MeshObject::selectVertex / selectEdge / selectFace / deselectAll         *)

\* deselectAll's loops left out: the flags stay as they are
ClearFlags_Kept(elems) == elems

\* for (auto& x : elems) x.selected = false
ClearFlags(elems) == [i \in 1..Len(elems) |-> [elems[i] EXCEPT !.selected = FALSE]]

\* if (id < elems.size()) elems[id].selected = true
SetFlag(elems, id) ==
    IF IndexBelowSize(id, Len(elems)) THEN [elems EXCEPT ![id + 1].selected = TRUE]
    ELSE elems

\* the mesh as deselectAll() leaves it, as a record of the six fields it writes
deselectAll ==
    [vertices |-> ClearFlags(m_vertices), edges |-> ClearFlags(m_edges),
     faces |-> ClearFlags(m_faces), selectedVertices |-> {},
     selectedEdges |-> {}, selectedFaces |-> {}]

\* the mesh untouched, in the same shape
Untouched ==
    [vertices |-> m_vertices, edges |-> m_edges, faces |-> m_faces,
     selectedVertices |-> m_selectedVertices, selectedEdges |-> m_selectedEdges,
     selectedFaces |-> m_selectedFaces]

\* if (!addToSelection) deselectAll();
BeforeSelect(addToSelection) == IF addToSelection THEN Untouched ELSE deselectAll

SetMesh(m) ==
    /\ m_vertices' = m.vertices
    /\ m_edges' = m.edges
    /\ m_faces' = m.faces
    /\ m_selectedVertices' = m.selectedVertices
    /\ m_selectedEdges' = m.selectedEdges
    /\ m_selectedFaces' = m.selectedFaces

SelectVertex(vertexId, addToSelection) ==
    LET m == BeforeSelect(addToSelection)
    IN  /\ SetMesh([m EXCEPT !.selectedVertices = @ \cup {vertexId},
                             !.vertices = SetFlag(@, vertexId)])
        /\ lastCall' = [op |-> "selectVertex", id |-> vertexId,
                        addToSelection |-> addToSelection]
        /\ ret' = "void"
        /\ UNCHANGED outsideMesh
        /\ UNCHANGED idVars

SelectEdge(edgeId, addToSelection) ==
    LET m == BeforeSelect(addToSelection)
    IN  /\ SetMesh([m EXCEPT !.selectedEdges = @ \cup {edgeId},
                             !.edges = SetFlag(@, edgeId)])
        /\ lastCall' = [op |-> "selectEdge", id |-> edgeId,
                        addToSelection |-> addToSelection]
        /\ ret' = "void"
        /\ UNCHANGED outsideMesh
        /\ UNCHANGED idVars

SelectFace(faceId, addToSelection) ==
    LET m == BeforeSelect(addToSelection)
    IN  /\ SetMesh([m EXCEPT !.selectedFaces = @ \cup {faceId},
                             !.faces = SetFlag(@, faceId)])
        /\ lastCall' = [op |-> "selectFace", id |-> faceId,
                        addToSelection |-> addToSelection]
        /\ ret' = "void"
        /\ UNCHANGED outsideMesh
        /\ UNCHANGED idVars

DeselectAll ==
    /\ SetMesh(deselectAll)
    /\ lastCall' = [op |-> "deselectAll"]
    /\ ret' = "void"
    /\ UNCHANGED outsideMesh
    /\ UNCHANGED idVars

\* Spec: one MeshObject under its create and selection functions
SelTris == 1
SelVerts == 1
SelFaces == 1
SelRing == 1
MaxSelId == 1

\* ids handed to the select functions: a negative one, and ids that exist in
\* some meshes and not in others
SelIds == -1..MaxSelId

SelCreateTriangles ==
    \E triangles \in SeqsUpTo({Triangle(Point3D(0, 0, 0), Point3D(2, 0, 0),
                                        Point3D(0, 2, 0), Vector3D(0, 0, 2))},
                              SelTris) :
        CreateFromTriangles(triangles)

SelCreateGeometry ==
    \E nv \in 0..SelVerts :
        \E vertices \in [1..nv -> {Point3D(0, 0, 0)}],
           faces \in SeqsUpTo({Face(r) : r \in SeqsUpTo(0..(SelVerts - 1), SelRing)},
                              SelFaces) :
            CreateFromGeometry(vertices, faces)

SelVertex == \E id \in SelIds, add \in BOOLEAN : SelectVertex(id, add)
SelEdge == \E id \in SelIds, add \in BOOLEAN : SelectEdge(id, add)
SelFace == \E id \in SelIds, add \in BOOLEAN : SelectFace(id, add)

Next ==
    \/ SelCreateTriangles
    \/ SelCreateGeometry
    \/ SelVertex
    \/ SelEdge
    \/ SelFace
    \/ DeselectAll

Spec == Init /\ [][Next]_vars

----------------------------------------------------------------------------
(* MeshManager: the editing operators and the importers.  Each body is      *)
(* `return false;`: the call is recorded, false is returned and the mesh    *)
(* is as it was.                                                            *)

\* SpecOps: ids handed to the operators, and ids handed to the select
\* functions between operator calls
MaxOpId == 1
MaxOpSel == 0

OpIdSets == SUBSET (0..MaxOpId)

\* a float argument in tenths: -1.0, 0.0, 0.5, 1.0, 1.5
Tenths == {-10, 0, 5, 10, 15}

Direction == Vector3D(0, 0, 2)

\* extrudeFaces that only rejects an empty faceIds
ExtrudeFaces_EmptyOnly ==
    \E faceIds \in OpIdSets, distance \in Tenths :
        /\ lastCall' = [op |-> "extrudeFaces", faceIds |-> faceIds,
                        direction |-> Direction, distance |-> distance]
        /\ ret' = (faceIds # {})
        /\ UNCHANGED outsideMesh
        /\ UNCHANGED meshVars

ExtrudeFaces ==
    \E faceIds \in OpIdSets, distance \in Tenths :
        /\ lastCall' = [op |-> "extrudeFaces", faceIds |-> faceIds,
                        direction |-> Direction, distance |-> distance]
        /\ ret' = FALSE
        /\ UNCHANGED outsideMesh
        /\ UNCHANGED meshVars

InsetFaces ==
    \E faceIds \in OpIdSets, insetAmount \in Tenths :
        /\ lastCall' = [op |-> "insetFaces", faceIds |-> faceIds, insetAmount |-> insetAmount]
        /\ ret' = FALSE
        /\ UNCHANGED outsideMesh
        /\ UNCHANGED meshVars

SubdivideEdges ==
    \E edgeIds \in OpIdSets :
        /\ lastCall' = [op |-> "subdivideEdges", edgeIds |-> edgeIds]
        /\ ret' = FALSE
        /\ UNCHANGED outsideMesh
        /\ UNCHANGED meshVars

SubdivideSelected ==
    /\ lastCall' = [op |-> "subdivideSelected"]
    /\ ret' = FALSE
    /\ UNCHANGED outsideMesh
    /\ UNCHANGED meshVars

\* mergeVertices that drops the targeted vertices and then gives up
MergeVertices_Partial ==
    \E vertexIds \in OpIdSets :
        /\ m_vertices' = SelectSeq(m_vertices, LAMBDA v : v.id \notin vertexIds)
        /\ lastCall' = [op |-> "mergeVertices", vertexIds |-> vertexIds]
        /\ ret' = FALSE
        /\ UNCHANGED outsideMesh
        /\ UNCHANGED <<m_edges, m_faces, selVars, idVars>>

MergeVertices ==
    \E vertexIds \in OpIdSets :
        /\ lastCall' = [op |-> "mergeVertices", vertexIds |-> vertexIds]
        /\ ret' = FALSE
        /\ UNCHANGED outsideMesh
        /\ UNCHANGED meshVars

DissolveVertices ==
    \E vertexIds \in OpIdSets :
        /\ lastCall' = [op |-> "dissolveVertices", vertexIds |-> vertexIds]
        /\ ret' = FALSE
        /\ UNCHANGED outsideMesh
        /\ UNCHANGED meshVars

ExtrudeEdges ==
    \E edgeIds \in OpIdSets, distance \in Tenths :
        /\ lastCall' = [op |-> "extrudeEdges", edgeIds |-> edgeIds,
                        direction |-> Direction, distance |-> distance]
        /\ ret' = FALSE
        /\ UNCHANGED outsideMesh
        /\ UNCHANGED meshVars

BridgeEdgeLoops ==
    \E edgeIds1 \in OpIdSets, edgeIds2 \in OpIdSets :
        /\ lastCall' = [op |-> "bridgeEdgeLoops", edgeIds1 |-> edgeIds1, edgeIds2 |-> edgeIds2]
        /\ ret' = FALSE
        /\ UNCHANGED outsideMesh
        /\ UNCHANGED meshVars

KnifeProject ==
    \E start \in Points, end \in Points :
        /\ lastCall' = [op |-> "knifeProject", start |-> start, end |-> end]
        /\ ret' = FALSE
        /\ UNCHANGED outsideMesh
        /\ UNCHANGED meshVars

SmoothMesh ==
    \E iterations \in {0, 1}, factor \in Tenths :
        /\ lastCall' = [op |-> "smoothMesh", iterations |-> iterations, factor |-> factor]
        /\ ret' = FALSE
        /\ UNCHANGED outsideMesh
        /\ UNCHANGED meshVars

DecimateMesh ==
    \E ratio \in Tenths :
        /\ lastCall' = [op |-> "decimateMesh", ratio |-> ratio]
        /\ ret' = FALSE
        /\ UNCHANGED outsideMesh
        /\ UNCHANGED meshVars

ApplySubdivisionSurface ==
    \E levels \in {0, 1} :
        /\ lastCall' = [op |-> "applySubdivisionSurface", levels |-> levels]
        /\ ret' = FALSE
        /\ UNCHANGED outsideMesh
        /\ UNCHANGED meshVars

ImportOBJ ==
    /\ lastCall' = [op |-> "importOBJ", filename |-> "mesh.obj"]
    /\ ret' = FALSE
    /\ UNCHANGED outsideMesh
    /\ UNCHANGED meshVars

ImportSTL ==
    /\ lastCall' = [op |-> "importSTL", filename |-> "mesh.stl"]
    /\ ret' = FALSE
    /\ UNCHANGED outsideMesh
    /\ UNCHANGED meshVars

EditOps ==
    {"extrudeFaces", "insetFaces", "subdivideEdges", "subdivideSelected",
     "mergeVertices", "dissolveVertices", "extrudeEdges", "bridgeEdgeLoops",
     "knifeProject", "smoothMesh", "decimateMesh", "applySubdivisionSurface"}

ImportOps == {"importOBJ", "importSTL"}

\* a selection made between operator calls, replacing the one before
OpsSelect ==
    \E id \in 0..MaxOpSel :
        \/ SelectVertex(id, FALSE)
        \/ SelectEdge(id, FALSE)
        \/ SelectFace(id, FALSE)

\* SpecTriangles: createFromTriangles on a mesh that createFromGeometry,
\* createPrimitiveMesh or an earlier createFromTriangles has filled and in
\* which an element may be selected
NextTriangles ==
    \/ CreateTriangles
    \/ SelCreateGeometry
    \/ CreatePrimitive
    \/ OpsSelect
    \/ DeselectAll

SpecTriangles == Init /\ [][NextTriangles]_vars

NextOps ==
    \/ SelCreateTriangles
    \/ CreatePrimitive
    \/ OpsSelect
    \/ DeselectAll
    \/ ExtrudeFaces
    \/ InsetFaces
    \/ SubdivideEdges
    \/ SubdivideSelected
    \/ MergeVertices
    \/ DissolveVertices
    \/ ExtrudeEdges
    \/ BridgeEdgeLoops
    \/ KnifeProject
    \/ SmoothMesh
    \/ DecimateMesh
    \/ ApplySubdivisionSurface
    \/ ImportOBJ
    \/ ImportSTL

SpecOps == Init /\ [][NextOps]_vars

----------------------------------------------------------------------------
(* The non-const accessors getVertices(), getEdges(), getFaces(): a caller  *)
(* holds a reference to the vector and writes it.                           *)

\* SpecAccess: how long a caller makes the vectors, and the vertex ids it
\* writes (one below and one above 0..AccVerts-1 included)
AccVerts == 2
AccEdges == 1
AccFaces == 1
AccRing == 1

AccIds == -1..AccVerts

\* getVertices().push_back(Vertex(p, n)) / getVertices().pop_back()
AccessVertices ==
    /\ \/ /\ Len(m_vertices) < AccVerts
          /\ m_vertices' = Append(m_vertices, Vertex(Point3D(0, 0, 0), Len(m_vertices)))
       \/ /\ Len(m_vertices) > 0
          /\ m_vertices' = SubSeq(m_vertices, 1, Len(m_vertices) - 1)
    /\ lastCall' = [op |-> "getVertices"]
    /\ ret' = "vector"
    /\ UNCHANGED outsideMesh
    /\ UNCHANGED <<m_edges, m_faces, selVars, idVars>>

\* getEdges().push_back(Edge(0, v2, n))
AccessEdges ==
    /\ Len(m_edges) < AccEdges
    /\ \E v2 \in AccIds :
        m_edges' = Append(m_edges, Edge(0, v2, Len(m_edges)))
    /\ lastCall' = [op |-> "getEdges"]
    /\ ret' = "vector"
    /\ UNCHANGED outsideMesh
    /\ UNCHANGED <<m_vertices, m_faces, selVars, idVars>>

\* getFaces().push_back(MeshFace(ring, n))
AccessFaces ==
    /\ Len(m_faces) < AccFaces
    /\ \E ring \in SeqsUpTo(AccIds, AccRing) :
        m_faces' = Append(m_faces, MeshFace(ring, Len(m_faces)))
    /\ lastCall' = [op |-> "getFaces"]
    /\ ret' = "vector"
    /\ UNCHANGED outsideMesh
    /\ UNCHANGED <<m_vertices, m_edges, selVars, idVars>>

NextAccess == AccessVertices \/ AccessEdges \/ AccessFaces

SpecAccess == Init /\ [][NextAccess]_vars

\* a MeshObject is constructed and filled once, the way createPrimitiveMesh
\* fills the mesh it has just made
Fresh == lastCall.op = "MeshObject"

\* as many vertices as a closed mesh with TopoSteps ring positions can have
\* edges: every edge of it is walked twice
TopoVerts == TopoSteps \div 2

\* the k-th smallest element of a set of integers
Nth(S, k) == CHOOSE a \in S : Cardinality({b \in S : b < a}) = k - 1

\* the sequence s cut into rings after the positions in cuts
CutRings(s, cuts) ==
    LET starts == {1} \cup {c + 1 : c \in cuts}
        nr == Cardinality(starts)
    IN  IF Len(s) = 0 THEN <<>>
        ELSE [k \in 1..nr |->
                 Face(SubSeq(s, Nth(starts, k),
                             IF k = nr THEN Len(s) ELSE Nth(starts, k + 1) - 1))]

\* the ring positions of a face list, one after the other: none, or up to
\* TopoSteps of them over the vertices handed in.  All vertices are at the
\* same point, and the first position names vertex 0.
TopoPositions ==
    {<<>>} \cup {<<0>> \o rest :
                    rest \in SeqsUpTo(0..(TopoVerts - 1), TopoSteps - 1)}

\* every such face list, with or without a face of no vertices before it
TopoGeometry ==
    /\ Fresh
    /\ \E s \in TopoPositions, empty \in BOOLEAN :
          \E cuts \in SUBSET (1..(Len(s) - 1)) :
            CreateFromGeometry([i \in 1..TopoVerts |-> Point3D(0, 0, 0)],
                               IF empty THEN <<Face(<<>>)>> \o CutRings(s, cuts)
                               ELSE CutRings(s, cuts))

TopoTriangles == Fresh /\ CreateTriangles

TopoPrimitive == Fresh /\ CreatePrimitive

NextTopo == TopoGeometry \/ TopoTriangles \/ TopoPrimitive

SpecTopo == Init /\ [][NextTopo]_vars

----------------------------------------------------------------------------
(* GeometryManager: Box and BooleanObject.  An object is named by its place *)
(* in `objects` (1, 2, ...), which stands for the shared_ptr to it; 0 is    *)
(* the null pointer.  A BooleanObject holds the pointers to its operands,   *)
(* so its operands are objects made before it.                              *)

\* SpecCsg: how many objects are made
MaxObjects == 3

\* Box(min, max): m_vertices is empty and m_meshGenerated = false
Box(min, max) ==
    [vertices |-> <<>>, type |-> "Box", min |-> min, max |-> max,
     meshGenerated |-> FALSE]

\* BooleanObject(objectA, objectB, op): m_result is default-constructed, a
\* null pointer, here the empty sequence
BooleanObject(objectA, objectB, op) ==
    [type |-> "BooleanObject", objectA |-> objectA, objectB |-> objectB,
     operation |-> op, result |-> <<>>]

\* Box::intersects: the ray origin is inside the box, faces included
BoxIntersects(box, rayOrigin) ==
    /\ rayOrigin[1] >= box.min[1] /\ rayOrigin[1] <= box.max[1]
    /\ rayOrigin[2] >= box.min[2] /\ rayOrigin[2] <= box.max[2]
    /\ rayOrigin[3] >= box.min[3] /\ rayOrigin[3] <= box.max[3]

\* CADObject::intersects on the object o of `objs`, dispatched on its class;
\* BooleanObject::intersects asks both operands, a null operand giving false
RECURSIVE intersects(_, _, _)
intersects(objs, o, rayOrigin) ==
    IF objs[o].type = "Box" THEN BoxIntersects(objs[o], rayOrigin)
    ELSE LET intersectsA == IF objs[o].objectA # 0
                            THEN intersects(objs, objs[o].objectA, rayOrigin)
                            ELSE FALSE
             intersectsB == IF objs[o].objectB # 0
                            THEN intersects(objs, objs[o].objectB, rayOrigin)
                            ELSE FALSE
         IN  CASE objs[o].operation = "UNION" -> intersectsA \/ intersectsB
               [] objs[o].operation = "DIFFERENCE" -> intersectsA /\ ~intersectsB
               [] objs[o].operation = "INTERSECTION" -> intersectsA /\ intersectsB

\* the unit cube of Box's default arguments, in halves of a unit
UnitMin == Point3D(-1, -1, -1)
UnitMax == Point3D(1, 1, 1)

\* the unit cube moved by (1, 0, 0)
MovedMin == Point3D(1, -1, -1)
MovedMax == Point3D(3, 1, 1)

Operations == {"UNION", "DIFFERENCE", "INTERSECTION"}

\* GeometryManager::createBox(min, max), here always the unit cube
CreateBox ==
    /\ Len(objects) < MaxObjects
    /\ objects' = Append(objects, Box(UnitMin, UnitMax))
    /\ lastCall' = [op |-> "createBox", min |-> UnitMin, max |-> UnitMax]
    /\ ret' = Len(objects) + 1
    /\ UNCHANGED outsideCsg

\* the three functions of GeometryManager that make a BooleanObject
Performs == {"performUnion", "performDifference", "performIntersection"}

\* a perform function that constructs with BooleanObject::UNION whatever its name
PerformOperation_Union(function) == "UNION"

\* the Operation each of them hands to the constructor
PerformOperation(function) ==
    CASE function = "performUnion" -> "UNION"
      [] function = "performDifference" -> "DIFFERENCE"
      [] function = "performIntersection" -> "INTERSECTION"

\* BooleanObject::getType()
getType(object) ==
    CASE object.operation = "UNION" -> "BOOLEAN_UNION"
      [] object.operation = "DIFFERENCE" -> "BOOLEAN_DIFFERENCE"
      [] object.operation = "INTERSECTION" -> "BOOLEAN_INTERSECTION"
      [] OTHER -> "BOOLEAN_UNION"

\* GeometryManager::performUnion / performDifference / performIntersection
\* (objectA, objectB), 0 for a null pointer
PerformBoolean ==
    /\ Len(objects) < MaxObjects
    /\ \E a \in 0..Len(objects), b \in 0..Len(objects), function \in Performs :
        /\ objects' = Append(objects, BooleanObject(a, b, PerformOperation(function)))
        /\ lastCall' = [op |-> function, objectA |-> a, objectB |-> b]
    /\ ret' = Len(objects) + 1
    /\ UNCHANGED outsideCsg

\* Box::setDimensions(min, max) on the box o
SetDimensions ==
    \E o \in 1..Len(objects) :
        /\ objects[o].type = "Box"
        /\ \E d \in {<<UnitMin, UnitMax>>, <<MovedMin, MovedMax>>} :
            /\ objects' = [objects EXCEPT ![o].min = d[1], ![o].max = d[2],
                                           ![o].meshGenerated = FALSE]
            /\ lastCall' = [op |-> "setDimensions", min |-> d[1], max |-> d[2],
                            object |-> o]
        /\ ret' = "void"
        /\ UNCHANGED outsideCsg

\* intersects that keeps its first answer in m_result and serves it again
Intersects_Cached ==
    \E o \in 1..Len(objects), rayOrigin \in Points :
        /\ objects[o].type = "BooleanObject"
        /\ IF objects[o].result = <<>>
           THEN /\ ret' = intersects(objects, o, rayOrigin)
                /\ objects' = [objects EXCEPT ![o].result = <<ret'>>]
           ELSE /\ ret' = objects[o].result[1]
                /\ UNCHANGED objects
        /\ lastCall' = [op |-> "intersects", object |-> o, rayOrigin |-> rayOrigin]
        /\ UNCHANGED outsideCsg

\* BooleanObject::intersects(rayOrigin, rayDirection) on the object o; const
Intersects ==
    \E o \in 1..Len(objects), rayOrigin \in Points :
        /\ objects[o].type = "BooleanObject"
        /\ ret' = intersects(objects, o, rayOrigin)
        /\ lastCall' = [op |-> "intersects", object |-> o, rayOrigin |-> rayOrigin]
        /\ UNCHANGED <<outsideCsg, objects>>

NextCsg == CreateBox \/ PerformBoolean \/ SetDimensions \/ Intersects

SpecCsg == Init /\ [][NextCsg]_vars

----------------------------------------------------------------------------
(* MeshObject::getBoundingBoxMin / getBoundingBoxMax                        *)

\* std::min(a, b) and std::max(a, b)
StdMin(a, b) == IF b < a THEN b ELSE a
StdMax(a, b) == IF a < b THEN b ELSE a

\* for (const auto& vertex : m_vertices) min.c = std::min(min.c, vertex.position.c)
RECURSIVE BoundingBoxMinLoop(_, _, _)
BoundingBoxMinLoop(min, vertices, i) ==
    IF i >= Len(vertices) THEN min
    ELSE LET position == vertices[i + 1].position
         IN  BoundingBoxMinLoop(Point3D(StdMin(min[1], position[1]),
                                        StdMin(min[2], position[2]),
                                        StdMin(min[3], position[3])),
                                vertices, i + 1)

\* for (const auto& vertex : m_vertices) max.c = std::max(max.c, vertex.position.c)
RECURSIVE BoundingBoxMaxLoop(_, _, _)
BoundingBoxMaxLoop(max, vertices, i) ==
    IF i >= Len(vertices) THEN max
    ELSE LET position == vertices[i + 1].position
         IN  BoundingBoxMaxLoop(Point3D(StdMax(max[1], position[1]),
                                        StdMax(max[2], position[2]),
                                        StdMax(max[3], position[3])),
                                vertices, i + 1)

\* getBoundingBoxMin that starts its scan at the origin, not at the first
\* vertex
getBoundingBoxMin_FromOrigin(vertices) ==
    BoundingBoxMinLoop(Point3D(0, 0, 0), vertices, 0)

\* MeshObject::getBoundingBoxMin on a mesh with these vertices
getBoundingBoxMin(vertices) ==
    IF vertices = <<>> THEN Point3D(0, 0, 0)
    ELSE BoundingBoxMinLoop(vertices[1].position, vertices, 0)

\* MeshObject::getBoundingBoxMax on a mesh with these vertices
getBoundingBoxMax(vertices) ==
    IF vertices = <<>> THEN Point3D(0, 0, 0)
    ELSE BoundingBoxMaxLoop(vertices[1].position, vertices, 0)

GetBoundingBoxMin ==
    /\ lastCall' = [op |-> "getBoundingBoxMin"]
    /\ ret' = getBoundingBoxMin(m_vertices)
    /\ UNCHANGED outsideMesh
    /\ UNCHANGED meshVars

GetBoundingBoxMax ==
    /\ lastCall' = [op |-> "getBoundingBoxMax"]
    /\ ret' = getBoundingBoxMax(m_vertices)
    /\ UNCHANGED outsideMesh
    /\ UNCHANGED meshVars

\* SpecBounds: how many vertices the mesh has
BoundsVerts == 3

\* the vertex positions handed in, in halves of a unit
BoundsPoints == {Point3D(x, y, z) : x \in {-1, 0, 2}, y \in {-1, 2}, z \in {0, 3}}

\* a new mesh of vertices only
BoundsGeometry ==
    /\ Fresh
    /\ \E vertices \in SeqsUpTo(BoundsPoints, BoundsVerts) :
           CreateFromGeometry(vertices, <<>>)

NextBounds == BoundsGeometry \/ GetBoundingBoxMin \/ GetBoundingBoxMax

SpecBounds == Init /\ [][NextBounds]_vars

----------------------------------------------------------------------------
(* MeshObject::recalculateNormals and MeshObject::updateNormals.            *)
(* Coordinates are whole numbers of 1/Unit.  The normalisation divides a    *)
(* vector by its length, so it gives the same answer whatever the unit of   *)
(* the vector it is handed; its result is cut to a whole number of 1/Unit.  *)

\* 1.0 in the numbers of the model
Unit == 2

Dot(a, b) == a[1] * b[1] + a[2] * b[2] + a[3] * b[3]

\* the integer part of the square root of n
Isqrt(n) == CHOOSE r \in 0..n : r * r <= n /\ n < (r + 1) * (r + 1)

\* a / b for b > 0, cut towards 0
Quot(a, b) == IF a >= 0 THEN a \div b ELSE -((-a) \div b)

\* length = sqrt(x*x + y*y + z*z); if (length > 0.0f) { x /= length; ... }
Normalize(v) ==
    IF Dot(v, v) > 0
    THEN LET length == Isqrt(100 * Dot(v, v))
         IN  Vector3D(Quot(10 * Unit * v[1], length),
                      Quot(10 * Unit * v[2], length),
                      Quot(10 * Unit * v[3], length))
    ELSE v

\* Vector3D edge(v.x - v0.x, v.y - v0.y, v.z - v0.z)
EdgeVector(v0, v) == Vector3D(v[1] - v0[1], v[2] - v0[2], v[3] - v0[3])

\* the cross product of recalculateNormals
Cross(edge1, edge2) ==
    Vector3D(edge1[2] * edge2[3] - edge1[3] * edge2[2],
             edge1[3] * edge2[1] - edge1[1] * edge2[3],
             edge1[1] * edge2[2] - edge1[2] * edge2[1])

\* the reads m_vertices[face.vertices[k]] of recalculateNormals, k = 0, 1, 2,
\* that are past the end of m_vertices: <<face, k>>, both counted from 1
BadReads(vertices, faces) ==
    {fk \in (1..Len(faces)) \X (1..3) :
        /\ Len(faces[fk[1]].vertices) >= 3
        /\ ~IndexBelowSize(faces[fk[1]].vertices[fk[2]], Len(vertices))}

\* positions of SpecNormals, in halves of a unit
NormPoints == {Point3D(0, 0, 0), Point3D(2, 0, 0), Point3D(0, 2, 0), Point3D(0, 0, 2)}

\* what a read past the end of m_vertices can find as a position
Garbage == {Point3D(0, 0, 0), Point3D(0, 0, 2)}

\* m_vertices[face.vertices[k - 1]].position for the face f; junk holds what
\* the reads past the end find
PositionRead(vertices, faces, junk, f, k) ==
    IF <<f, k>> \in DOMAIN junk THEN junk[<<f, k>>]
    ELSE vertices[faces[f].vertices[k] + 1].position

\* the face normal that keeps what the face held when the cross product is
\* the zero vector
FaceNormal_KeepOnZero(vertices, faces, junk, f) ==
    IF Len(faces[f].vertices) >= 3
    THEN LET v0 == PositionRead(vertices, faces, junk, f, 1)
             v1 == PositionRead(vertices, faces, junk, f, 2)
             v2 == PositionRead(vertices, faces, junk, f, 3)
             cross == Cross(EdgeVector(v0, v1), EdgeVector(v0, v2))
         IN  IF Dot(cross, cross) > 0 THEN Normalize(cross) ELSE faces[f].normal
    ELSE faces[f].normal

\* face.normal after the body of the first loop of recalculateNormals
FaceNormal(vertices, faces, junk, f) ==
    IF Len(faces[f].vertices) >= 3
    THEN LET v0 == PositionRead(vertices, faces, junk, f, 1)
             v1 == PositionRead(vertices, faces, junk, f, 2)
             v2 == PositionRead(vertices, faces, junk, f, 3)
         IN  Normalize(Cross(EdgeVector(v0, v1), EdgeVector(v0, v2)))
    ELSE faces[f].normal

\* m_faces after the first loop of recalculateNormals
FaceNormals(vertices, faces, junk) ==
    [f \in 1..Len(faces) |->
        [faces[f] EXCEPT !.normal = FaceNormal(vertices, faces, junk, f)]]

\* the sum of the normals of the faces f + 1, f + 2, ... whose ring holds
\* the id, each face counted once (the break)
RECURSIVE SumNormals(_, _, _)
SumNormals(faces, id, f) ==
    IF f >= Len(faces) THEN Vector3D(0, 0, 0)
    ELSE LET face == faces[f + 1]
             rest == SumNormals(faces, id, f + 1)
         IN  IF \E i \in 1..Len(face.vertices) : face.vertices[i] = id
             THEN Vector3D(face.normal[1] + rest[1], face.normal[2] + rest[2],
                           face.normal[3] + rest[3])
             ELSE rest

\* faceCount of updateNormals for the vertex with this id
FaceCount(faces, id) ==
    Cardinality({f \in 1..Len(faces) :
                    \E i \in 1..Len(faces[f].vertices) : faces[f].vertices[i] = id})

\* vertex.normal after the body of the loop of updateNormals: the sum is
\* divided by faceCount, which leaves it in units of 1/(Unit * faceCount),
\* and then normalised
VertexNormal(faces, id) ==
    IF FaceCount(faces, id) > 0 THEN Normalize(SumNormals(faces, id, 0))
    ELSE Vector3D(0, 0, 0)

\* m_vertices after updateNormals
updateNormals(vertices, faces) ==
    [i \in 1..Len(vertices) |->
        [vertices[i] EXCEPT !.normal = VertexNormal(faces, vertices[i].id)]]

\* the process has been ended by a read past the end of a vector
Crashed == lastCall.op = "SIGSEGV"

\* MeshObject::recalculateNormals().  A read past the end of m_vertices is
\* undefined: it finds any position, or ends the process.  The call is
\* recorded with the faces it found.
RecalculateNormals ==
    /\ ~Crashed
    /\ \/ /\ \E junk \in [BadReads(m_vertices, m_faces) -> Garbage] :
                /\ m_faces' = FaceNormals(m_vertices, m_faces, junk)
                /\ m_vertices' = updateNormals(m_vertices, m_faces')
          /\ lastCall' = [op |-> "recalculateNormals", faces |-> m_faces]
          /\ ret' = "void"
          /\ UNCHANGED outsideMesh
          /\ UNCHANGED <<m_edges, selVars, idVars>>
       \/ /\ BadReads(m_vertices, m_faces) # {}
          /\ lastCall' = [op |-> "SIGSEGV"]
          /\ ret' = "void"
          /\ UNCHANGED outsideMesh
          /\ UNCHANGED meshVars

\* SpecNormals: at most how many faces the mesh has
NormFaces == 2

\* the vertex positions handed in: three vertices, the first one at the origin
NormPositions == {<<Point3D(0, 0, 0), a, b>> : a, b \in NormPoints}

\* the faces handed in: a triangle in both orientations, a ring of two, and
\* a ring with an index past the end; each with a zero and a non-zero normal
NormRings == {<<0, 1, 2>>, <<0, 2, 1>>, <<0, 1>>, <<0, 1, 7>>}
NormFaceSet ==
    {[Face(ring) EXCEPT !.normal = n] :
        ring \in NormRings, n \in {Vector3D(0, 0, 0), Vector3D(0, 0, Unit)}}

NormalsGeometry ==
    /\ Fresh
    /\ \E vertices \in NormPositions, faces \in SeqsUpTo(NormFaceSet, NormFaces) :
           CreateFromGeometry(vertices, faces)

NextNormals == NormalsGeometry \/ RecalculateNormals

SpecNormals == Init /\ [][NextNormals]_vars

----------------------------------------------------------------------------
(* mergeVertices and dissolveVertices on a new mesh made of triangles, of   *)
(* which some have their first two corners at one position                  *)

NextMerge == TopoTriangles \/ TopoPrimitive \/ MergeVertices \/ DissolveVertices

SpecMerge == Init /\ [][NextMerge]_vars

----------------------------------------------------------------------------
(* subdivideSelected on a new box mesh of which edges have been selected    *)

\* selectEdge(id, true) for an edge of the mesh
CubeSelectEdge == \E id \in 0..(Len(m_edges) - 1) : SelectEdge(id, TRUE)

NextCube == TopoPrimitive \/ CubeSelectEdge \/ SubdivideSelected \/ SubdivideEdges

SpecCube == Init /\ [][NextCube]_vars

----------------------------------------------------------------------------
(* MeshManager::booleanUnion / booleanDifference / booleanIntersection and  *)
(* exportOBJ / exportSTL.  meshA, and the mesh of an export or import, is   *)
(* the MeshObject of the state; meshB is a second MeshObject.               *)

\* the box of createPrimitiveMesh moved by (0.5, 0, 0)
MovedBoxVertices ==
    [i \in 1..Len(BoxVertices) |->
        Point3D(BoxVertices[i][1] + 1, BoxVertices[i][2], BoxVertices[i][3])]

\* the second operand: an empty mesh, the box, the moved box
OtherMeshes ==
    {createFromGeometry(<<>>, <<>>), createFromGeometry(BoxVertices, BoxFaces),
     createFromGeometry(MovedBoxVertices, BoxFaces)}

BooleanUnion ==
    \E meshB \in OtherMeshes :
        /\ lastCall' = [op |-> "booleanUnion", meshB |-> meshB]
        /\ ret' = "nullptr"
        /\ UNCHANGED outsideMesh
        /\ UNCHANGED meshVars

BooleanDifference ==
    \E meshB \in OtherMeshes :
        /\ lastCall' = [op |-> "booleanDifference", meshB |-> meshB]
        /\ ret' = "nullptr"
        /\ UNCHANGED outsideMesh
        /\ UNCHANGED meshVars

BooleanIntersection ==
    \E meshB \in OtherMeshes :
        /\ lastCall' = [op |-> "booleanIntersection", meshB |-> meshB]
        /\ ret' = "nullptr"
        /\ UNCHANGED outsideMesh
        /\ UNCHANGED meshVars

NextMeshBoolean ==
    \/ TopoTriangles
    \/ TopoPrimitive
    \/ BooleanUnion
    \/ BooleanDifference
    \/ BooleanIntersection

SpecMeshBoolean == Init /\ [][NextMeshBoolean]_vars

ExportOBJ ==
    /\ lastCall' = [op |-> "exportOBJ", filename |-> "mesh.obj"]
    /\ ret' = FALSE
    /\ UNCHANGED outsideMesh
    /\ UNCHANGED meshVars

ExportSTL ==
    /\ lastCall' = [op |-> "exportSTL", filename |-> "mesh.stl"]
    /\ ret' = FALSE
    /\ UNCHANGED outsideMesh
    /\ UNCHANGED meshVars

NextExchange ==
    \/ TopoTriangles
    \/ TopoPrimitive
    \/ OpsSelect
    \/ ExportOBJ
    \/ ExportSTL
    \/ ImportOBJ
    \/ ImportSTL

SpecExchange == Init /\ [][NextExchange]_vars

----------------------------------------------------------------------------
(* The select functions on a mesh of triangles that is rebuilt in between   *)

\* a selection that adds or replaces, with an id that some elements have
ReplaceSelect ==
    \E id \in 0..(MaxOpSel + 1), add \in BOOLEAN :
        \/ SelectVertex(id, add)
        \/ SelectEdge(id, add)
        \/ SelectFace(id, add)

NextReplace == SelCreateTriangles \/ ReplaceSelect \/ DeselectAll

SpecReplace == Init /\ [][NextReplace]_vars

(***************************************************************************)
(* MeshManager::selectAll and the selection mode it reads.                 *)
(***************************************************************************)
SelectionModes == {"VERTEX", "EDGE", "FACE", "OBJECT"}

\* void setSelectionMode(SelectionMode mode) { m_selectionMode = mode; }
SetSelectionMode ==
    \E mode \in SelectionModes :
        /\ m_selectionMode' = mode
        /\ lastCall' = [op |-> "setSelectionMode", mode |-> mode]
        /\ ret' = "void"
        /\ UNCHANGED <<meshVars, objects, viewerVars, partVars>>

\* for (int i = 0; i < elems.size(); ++i) mesh->selectX(i, true), from i on:
\* each call inserts i into the set and flags elems[i]
RECURSIVE SelectAllLoop(_, _, _)
SelectAllLoop(elems, selection, i) ==
    IF i < Len(elems)
    THEN SelectAllLoop(SetFlag(elems, i), selection \cup {i}, i + 1)
    ELSE [elems |-> elems, selection |-> selection]

\* MeshManager::selectAll(mesh) with a mesh
SelectAll ==
    /\ CASE m_selectionMode = "VERTEX" ->
              LET r == SelectAllLoop(m_vertices, m_selectedVertices, 0)
              IN  SetMesh([Untouched EXCEPT !.vertices = r.elems,
                                            !.selectedVertices = r.selection])
         [] m_selectionMode = "EDGE" ->
              LET r == SelectAllLoop(m_edges, m_selectedEdges, 0)
              IN  SetMesh([Untouched EXCEPT !.edges = r.elems,
                                            !.selectedEdges = r.selection])
         [] m_selectionMode = "FACE" ->
              LET r == SelectAllLoop(m_faces, m_selectedFaces, 0)
              IN  SetMesh([Untouched EXCEPT !.faces = r.elems,
                                            !.selectedFaces = r.selection])
         [] OTHER -> SetMesh(Untouched)
    /\ lastCall' = [op |-> "selectAll", mesh |-> "mesh"]
    /\ ret' = "void"
    /\ UNCHANGED outsideMesh
    /\ UNCHANGED idVars

\* MeshManager::selectAll(nullptr): if (!mesh) return;
SelectAllNull ==
    /\ lastCall' = [op |-> "selectAll", mesh |-> "nullptr"]
    /\ ret' = "void"
    /\ UNCHANGED <<meshVars, outsideMesh>>

NextSelectAll ==
    \/ SelCreateTriangles
    \/ ReplaceSelect
    \/ SetSelectionMode
    \/ SelectAll
    \/ SelectAllNull

SpecSelectAll == Init /\ [][NextSelectAll]_vars

(***************************************************************************)
(* CADViewer: the scene list, the selection, the active tool, shape         *)
(* placement and sketching.  A CADObjectPtr is the number of the object it  *)
(* points to, 0 for a null pointer; objects are numbered as they are made.  *)
(* The member functions are operators on the viewer's fields as a record,   *)
(* so that a handler is the composition of the functions it calls.          *)
(***************************************************************************)
MaxViewerObjects == 3
MaxScene == 2

ActiveTools ==
    {"SELECT", "PLACE_SHAPE", "EXTRUDE_2D", "ERASER", "MEASURE", "SKETCH_LINE",
     "SKETCH_RECTANGLE", "SKETCH_CIRCLE"}

SketchTools == {"SKETCH_LINE", "SKETCH_RECTANGLE", "SKETCH_CIRCLE"}

\* the viewer as it is
Viewer ==
    [objects |-> m_objects, selectedObjects |-> m_selectedObjects,
     contextMenuObject |-> m_contextMenuObject, activeTool |-> m_activeTool,
     placementState |-> m_placementState,
     isSketchingActive |-> m_isSketchingActive, sketchPoints |-> m_sketchPoints,
     allocated |-> allocated]

SetViewer(v) ==
    /\ m_objects' = v.objects
    /\ m_selectedObjects' = v.selectedObjects
    /\ m_contextMenuObject' = v.contextMenuObject
    /\ m_activeTool' = v.activeTool
    /\ m_placementState' = v.placementState
    /\ m_isSketchingActive' = v.isSketchingActive
    /\ m_sketchPoints' = v.sketchPoints
    /\ allocated' = v.allocated

\* the elements of a list
Range(s) == {s[i] : i \in 1..Len(s)}

\* std::find(list.begin(), list.end(), object): the first position, 0 for end()
Find(list, object) ==
    IF \E i \in 1..Len(list) : list[i] = object
    THEN CHOOSE i \in 1..Len(list) :
             list[i] = object /\ \A j \in 1..(i - 1) : list[j] # object
    ELSE 0

\* list.erase(it)
Erase(list, i) == SubSeq(list, 1, i - 1) \o SubSeq(list, i + 1, Len(list))

\* CADViewer::addObject
addObject(v, object) ==
    IF object # 0 THEN [v EXCEPT !.objects = Append(@, object)] ELSE v

\* CADViewer::removeObject: the first occurrence leaves the scene list
removeObject(v, object) ==
    IF Find(v.objects, object) # 0
    THEN [v EXCEPT !.objects = Erase(@, Find(v.objects, object))]
    ELSE v

\* CADViewer::clearObjects
clearObjects(v) == [v EXCEPT !.objects = <<>>, !.selectedObjects = <<>>]

\* CADViewer::deselectAll
viewerDeselectAll(v) == [v EXCEPT !.selectedObjects = <<>>]

\* CADViewer::selectObject
selectObject(v, object) ==
    IF object # 0
    THEN [viewerDeselectAll(v) EXCEPT !.selectedObjects = <<object>>]
    ELSE v

\* CADViewer::selectAll: every object of the scene list, in its order
viewerSelectAll(v) == [viewerDeselectAll(v) EXCEPT !.selectedObjects = v.objects]

\* for (auto& object : m_selectedObjects) removeObject(object), from i on
RECURSIVE RemoveEach(_, _, _)
RemoveEach(v, list, i) ==
    IF i > Len(list) THEN v
    ELSE RemoveEach(removeObject(v, list[i]), list, i + 1)

\* CADViewer::deleteSelected
deleteSelected(v) ==
    [RemoveEach(v, v.selectedObjects, 1) EXCEPT !.selectedObjects = <<>>]

\* CADViewer::deleteSelectedObject, the context menu's Delete
deleteSelectedObject(v) ==
    IF v.contextMenuObject # 0
    THEN [removeObject(v, v.contextMenuObject) EXCEPT !.contextMenuObject = 0]
    ELSE v

\* std::make_shared of a CADObject: the next number
Allocate(v) == [v EXCEPT !.allocated = @ + 1]

\* CADViewer::performBooleanSubtraction(target, eraser) with both non-null:
\* performDifference makes a BooleanObject that takes the target's place
performBooleanSubtraction(v, target) ==
    LET w == Allocate(v)
    IN  addObject(removeObject(w, target), w.allocated)

\* CADViewer::startShapePlacement
startShapePlacement(v) == [v EXCEPT !.placementState = "SETTING_START_POINT"]

\* CADViewer::cancelShapePlacement
cancelShapePlacement(v) == [v EXCEPT !.placementState = "NONE"]

\* CADViewer::setActiveTool; setEraserMode(true) writes m_activeTool = ERASER,
\* which it is already
setActiveTool(v, tool) ==
    IF v.activeTool # tool
    THEN LET w == [cancelShapePlacement(v) EXCEPT !.activeTool = tool]
         IN  IF tool \in {"PLACE_SHAPE", "ERASER"} THEN startShapePlacement(w)
             ELSE w
    ELSE v

\* CADViewer::startLineSketch / startRectangleSketch / startCircleSketch
startSketch(v) == [v EXCEPT !.isSketchingActive = TRUE, !.sketchPoints = <<>>]

\* CADViewer::cancelCurrentSketch
cancelCurrentSketch(v) ==
    [v EXCEPT !.isSketchingActive = FALSE, !.sketchPoints = <<>>]

\* CADViewer::finishCurrentSketch; `made` says whether createLineFromPoints
\* and its like return an object
finishCurrentSketch(v, made) ==
    IF ~v.isSketchingActive THEN v
    ELSE IF v.activeTool \in SketchTools /\ Len(v.sketchPoints) >= 2 /\ made
    THEN LET w == Allocate(v) IN cancelCurrentSketch(addObject(w, w.allocated))
    ELSE cancelCurrentSketch(v)

\* CADViewer::handleSketchClick
handleSketchClick(v, made) ==
    IF v.activeTool \in SketchTools
    THEN IF Len(v.sketchPoints) = 0
         THEN [v EXCEPT !.sketchPoints = Append(@, "worldPos")]
         ELSE IF Len(v.sketchPoints) = 1
         THEN finishCurrentSketch([v EXCEPT !.sketchPoints = Append(@, "worldPos")],
                                  made)
         ELSE v
    ELSE v

\* CADViewer::handleShapePlacementClick; `made` says whether
\* createShapeAtPoints returns an object
handleShapePlacementClick(v, made) ==
    IF v.placementState = "SETTING_START_POINT"
    THEN [v EXCEPT !.placementState = "WAITING_FOR_SECOND_CLICK"]
    ELSE IF v.placementState = "WAITING_FOR_SECOND_CLICK"
    THEN LET w == IF made
                  THEN IF v.activeTool = "ERASER" THEN Allocate(v)
                       ELSE addObject(Allocate(v), v.allocated + 1)
                  ELSE v
         IN  setActiveTool(cancelShapePlacement(w), "SELECT")
    ELSE v

\* for (const auto& targetObject : intersectedObjects)
\*     performBooleanSubtraction(targetObject, eraserObject), from i on
RECURSIVE SubtractEach(_, _, _)
SubtractEach(v, targets, i) ==
    IF i > Len(targets) THEN v
    ELSE SubtractEach(performBooleanSubtraction(v, targets[i]), targets, i + 1)

\* CADViewer::handleEraserPlacementClick; `targets` are the scene objects
\* that objectsIntersect finds, in the order of the scene list
handleEraserPlacementClick(v, made, targets) ==
    IF v.placementState = "SETTING_START_POINT"
    THEN [v EXCEPT !.placementState = "WAITING_FOR_SECOND_CLICK"]
    ELSE IF v.placementState = "WAITING_FOR_SECOND_CLICK"
    THEN LET w == IF made THEN SubtractEach(Allocate(v), targets, 1) ELSE v
         IN  setActiveTool(cancelShapePlacement(w), "SELECT")
    ELSE v

KeyActions ==
    {"TOGGLE_GRID", "RESET_VIEW", "PLACE_SHAPE", "DELETE_SELECTED", "SELECT_ALL",
     "DESELECT_ALL", "SKETCH_LINE", "SKETCH_RECTANGLE", "SKETCH_CIRCLE",
     "CANCEL_CURRENT_ACTION"}

\* CADViewer::executeKeyAction; the view actions leave these fields alone
executeKeyAction(v, action) ==
    CASE action = "DELETE_SELECTED" -> deleteSelected(v)
      [] action = "SELECT_ALL" -> viewerSelectAll(v)
      [] action = "DESELECT_ALL" -> viewerDeselectAll(v)
      [] action = "PLACE_SHAPE" ->
            startShapePlacement(setActiveTool(v, "PLACE_SHAPE"))
      [] action \in SketchTools -> startSketch(setActiveTool(v, action))
      [] action = "CANCEL_CURRENT_ACTION" ->
            setActiveTool(cancelCurrentSketch(cancelShapePlacement(v)), "SELECT")
      [] OTHER -> v

\* CADViewer::mousePressEvent with the left button; `picked` is what
\* pickObject returns.  m_extrusionObject is null: nothing here starts an
\* extrusion
mousePressLeft(v, picked, made, targets) ==
    CASE v.activeTool = "SELECT" ->
            IF picked # 0 THEN selectObject(v, picked) ELSE viewerDeselectAll(v)
      [] v.activeTool = "PLACE_SHAPE" -> handleShapePlacementClick(v, made)
      [] v.activeTool = "ERASER" -> handleEraserPlacementClick(v, made, targets)
      [] v.activeTool \in SketchTools -> handleSketchClick(v, made)
      [] OTHER -> v

\* CADViewer::mousePressEvent with the right button
mousePressRight(v, picked) ==
    IF v.placementState # "NONE" \/ v.isSketchingActive
    THEN cancelCurrentSketch(cancelShapePlacement(v))
    ELSE IF picked # 0
    THEN [selectObject(v, picked) EXCEPT !.contextMenuObject = picked]
    ELSE viewerDeselectAll(v)

\* what pickObject can return: an object of the scene list, or null
Pickable == {0} \cup {m_objects[i] : i \in 1..Len(m_objects)}

\* what the eraser can intersect: the scene objects at some positions
Intersected ==
    {SelectSeq([i \in 1..Len(m_objects) |-> <<i, m_objects[i]>>],
               LAMBDA x : x[1] \in S) : S \in SUBSET (1..Len(m_objects))}

\* the objects a caller can hand in: null, or one that has been made
Held == 0..allocated

\* a call from outside with an object: addObject, removeObject, selectObject
ViewerCall(op, v, object) ==
    /\ SetViewer(v)
    /\ lastCall' = [op |-> op, object |-> object]
    /\ ret' = "void"
    /\ UNCHANGED outsideViewer

\* addObject(std::make_shared<...>(...)) and addObject of a held object
AddObject ==
    /\ Len(m_objects) < MaxScene
    /\ \/ \E object \in Held : ViewerCall("addObject", addObject(Viewer, object), object)
       \/ /\ allocated < MaxViewerObjects
          /\ ViewerCall("addObject", addObject(Allocate(Viewer), allocated + 1),
                        allocated + 1)

RemoveObject ==
    \E object \in Held : ViewerCall("removeObject", removeObject(Viewer, object), object)

SelectObject ==
    \E object \in Held : ViewerCall("selectObject", selectObject(Viewer, object), object)

ClearObjects == ViewerCall("clearObjects", clearObjects(Viewer), 0)

DeleteSelectedObject ==
    ViewerCall("deleteSelectedObject", deleteSelectedObject(Viewer),
               m_contextMenuObject)

\* setActiveTool(tool), as MainWindow's createBox and its like call it
SetActiveToolIn(tools) ==
    \E tool \in tools :
        /\ SetViewer(setActiveTool(Viewer, tool))
        /\ lastCall' = [op |-> "setActiveTool", tool |-> tool]
        /\ ret' = "void"
        /\ UNCHANGED outsideViewer

ExecuteKeyActionIn(actions) ==
    \E action \in actions :
        /\ SetViewer(executeKeyAction(Viewer, action))
        /\ lastCall' = [op |-> "executeKeyAction", action |-> action]
        /\ ret' = "void"
        /\ UNCHANGED outsideViewer

\* an object is made only while the numbers last, and the scene list grows
\* only up to MaxScene
MousePressLeft ==
    \E picked \in Pickable, made \in BOOLEAN, hit \in Intersected :
        LET targets == [i \in 1..Len(hit) |-> hit[i][2]]
            v == mousePressLeft(Viewer, picked, made, targets)
        IN  /\ v.allocated <= MaxViewerObjects
            /\ Len(v.objects) <= MaxScene
            /\ SetViewer(v)
            /\ lastCall' = [op |-> "mousePressEvent", button |-> "LeftButton",
                            picked |-> picked, made |-> made, targets |-> targets]
            /\ ret' = "void"
            /\ UNCHANGED outsideViewer

MousePressRight ==
    \E picked \in Pickable :
        /\ SetViewer(mousePressRight(Viewer, picked))
        /\ lastCall' = [op |-> "mousePressEvent", button |-> "RightButton",
                        picked |-> picked]
        /\ ret' = "void"
        /\ UNCHANGED outsideViewer

\* Spec: the viewer's scene and selection, under the calls and clicks that
\* change them; of the tools, the selection tool and the eraser
SceneSetActiveTool == SetActiveToolIn({"SELECT", "ERASER"})
SceneKeyAction == ExecuteKeyActionIn({"DELETE_SELECTED", "SELECT_ALL", "DESELECT_ALL"})

NextScene ==
    \/ AddObject
    \/ RemoveObject
    \/ SelectObject
    \/ ClearObjects
    \/ DeleteSelectedObject
    \/ SceneSetActiveTool
    \/ SceneKeyAction
    \/ MousePressLeft
    \/ MousePressRight

SpecScene == Init /\ [][NextScene]_vars

\* Spec: the viewer's tools, under every tool change, key action and click
SetActiveTool == SetActiveToolIn(ActiveTools)
ExecuteKeyAction == ExecuteKeyActionIn(KeyActions)

NextTools ==
    \/ SetActiveTool
    \/ ExecuteKeyAction
    \/ MousePressLeft
    \/ MousePressRight

SpecTools == Init /\ [][NextTools]_vars

(***************************************************************************)
(* PartManager: the open documents and the active one.  A                   *)
(* shared_ptr<PartDocument> is the number of the document, 0 for null.      *)
(***************************************************************************)
MaxDocuments == 3

\* the manager as it is
Manager == [documents |-> m_documents, activeDocument |-> m_activeDocument]

SetManager(m) ==
    /\ m_documents' = m.documents
    /\ m_activeDocument' = m.activeDocument

\* PartManager::loadFromFile: "Placeholder file loading", return false
loadFromFile(filePath, document) == FALSE

\* PartManager::createDocument with the new document `document`
createDocument(m, document) ==
    LET pushed == [m EXCEPT !.documents = Append(@, document)]
    IN  IF pushed.activeDocument = 0
        THEN [pushed EXCEPT !.activeDocument = document]
        ELSE pushed

\* PartManager::openDocument with the new document `document`
openDocument(m, filePath, document) ==
    IF loadFromFile(filePath, document)
    THEN [m EXCEPT !.documents = Append(@, document), !.activeDocument = document]
    ELSE m

\* a closeDocument that leaves the active document as it is
closeDocument_KeepActive(m, document) ==
    IF document = 0 THEN m
    ELSE [m EXCEPT !.documents = SelectSeq(@, LAMBDA d : d # document)]

\* PartManager::closeDocument: std::remove takes every occurrence out
closeDocument(m, document) ==
    IF document = 0 THEN m
    ELSE LET erased == [m EXCEPT !.documents = SelectSeq(@, LAMBDA d : d # document)]
         IN  IF erased.activeDocument = document
             THEN [erased EXCEPT !.activeDocument =
                       IF erased.documents = <<>> THEN 0 ELSE Head(erased.documents)]
             ELSE erased

\* PartManager::setActiveDocument
setActiveDocument(m, document) ==
    IF Find(m.documents, document) # 0
    THEN [m EXCEPT !.activeDocument = document]
    ELSE m

\* where make_shared<PartDocument> can put the new document: anywhere the
\* manager holds no document
NewDocuments == (1..MaxDocuments) \ (Range(m_documents) \cup {m_activeDocument})

\* the documents a caller can hand in: null, open ones and closed ones
Documents == 0..MaxDocuments

FilePaths == {"part.cad"}

CreateDocument ==
    \E document \in NewDocuments :
        /\ SetManager(createDocument(Manager, document))
        /\ lastCall' = [op |-> "createDocument", name |-> "Document"]
        /\ ret' = document
        /\ UNCHANGED outsidePart
        /\ UNCHANGED <<m_partInstances, m_parent>>

OpenDocument ==
    \E document \in NewDocuments, filePath \in FilePaths :
        /\ SetManager(openDocument(Manager, filePath, document))
        /\ lastCall' = [op |-> "openDocument", filePath |-> filePath]
        /\ ret' = IF loadFromFile(filePath, document) THEN document ELSE 0
        /\ UNCHANGED outsidePart
        /\ UNCHANGED <<m_partInstances, m_parent>>

CloseDocument ==
    \E document \in Documents :
        /\ SetManager(closeDocument(Manager, document))
        /\ lastCall' = [op |-> "closeDocument", document |-> document]
        /\ ret' = "void"
        /\ UNCHANGED outsidePart
        /\ UNCHANGED <<m_partInstances, m_parent>>

SetActiveDocument ==
    \E document \in Documents :
        /\ SetManager(setActiveDocument(Manager, document))
        /\ lastCall' = [op |-> "setActiveDocument", document |-> document]
        /\ ret' = "void"
        /\ UNCHANGED outsidePart
        /\ UNCHANGED <<m_partInstances, m_parent>>

NextDocuments == CreateDocument \/ OpenDocument \/ CloseDocument \/ SetActiveDocument

SpecDocuments == Init /\ [][NextDocuments]_vars

(***************************************************************************)
(* Assembly: the part instances of each assembly and the parent pointer of  *)
(* each object.                                                             *)
(***************************************************************************)
MaxInstances == 2

\* PartInstance(p, name)
PartInstance(p, name) == [part |-> p, instanceName |-> name]

\* CADObject::getName(): every object has the name its class gives it
getName(object) == IF object \in Assemblies THEN "Assembly" ELSE "Box"

\* names a caller gives to addPart, the empty one standing for the part's own
InstanceNames == {"", "left"}

\* names an instance can have
HeldNames == {"left", "Box"}

\* Assembly::addPart(part, instanceName) on the assembly a
AddPart ==
    \E a \in Assemblies, part \in {0} \cup Parts, instanceName \in InstanceNames :
        /\ Len(m_partInstances[a]) < MaxInstances
        /\ IF part = 0
           THEN UNCHANGED <<m_partInstances, m_parent>>
           ELSE LET name == IF instanceName = "" THEN getName(part) ELSE instanceName
                IN  /\ m_partInstances' =
                           [m_partInstances EXCEPT ![a] = Append(@, PartInstance(part, name))]
                    /\ m_parent' = [m_parent EXCEPT ![part] = a]
        /\ lastCall' = [op |-> "addPart", assembly |-> a, part |-> part,
                        instanceName |-> instanceName]
        /\ ret' = "void"
        /\ UNCHANGED outsidePart
        /\ UNCHANGED <<m_documents, m_activeDocument>>

\* Assembly::removePart(part) on the assembly a: every instance of the part
\* leaves the list
RemovePart ==
    \E a \in Assemblies, part \in {0} \cup Parts :
        /\ m_partInstances' =
               [m_partInstances EXCEPT ![a] =
                    SelectSeq(@, LAMBDA instance : ~(instance.part = part))]
        /\ lastCall' = [op |-> "removePart", assembly |-> a, part |-> part]
        /\ ret' = "void"
        /\ UNCHANGED outsidePart
        /\ UNCHANGED <<m_documents, m_activeDocument, m_parent>>

\* Assembly::removePartInstance(instanceName) on the assembly a
RemovePartInstance ==
    \E a \in Assemblies, instanceName \in HeldNames :
        /\ m_partInstances' =
               [m_partInstances EXCEPT ![a] =
                    SelectSeq(@, LAMBDA instance :
                                     ~(instance.instanceName = instanceName))]
        /\ lastCall' = [op |-> "removePartInstance", assembly |-> a,
                        instanceName |-> instanceName]
        /\ ret' = "void"
        /\ UNCHANGED outsidePart
        /\ UNCHANGED <<m_documents, m_activeDocument, m_parent>>

NextAssembly == AddPart \/ RemovePart \/ RemovePartInstance

SpecAssembly == Init /\ [][NextAssembly]_vars

(***************************************************************************)
(* The primitives' meshes: Box, Cylinder, Sphere and Cone keep a vertex     *)
(* list and the flag m_meshGenerated.  Lengths are in halves of a unit.     *)
(* The sine and cosine of an angle are kept as the terms that name them:    *)
(* two coordinates are equal when they are computed from equal arguments.   *)
(***************************************************************************)
MaxPrimitives == 1

\* Cylinder(radius, height, segments)
Cylinder(radius, height, segments) ==
    [vertices |-> <<>>, type |-> "Cylinder", radius |-> radius, height |-> height,
     segments |-> segments, meshGenerated |-> FALSE]

\* Sphere(radius, segments): m_center(0, 0, 0)
Sphere(radius, segments) ==
    [vertices |-> <<>>, type |-> "Sphere", radius |-> radius, segments |-> segments,
     center |-> Point3D(0, 0, 0), meshGenerated |-> FALSE]

\* Cone(bottomRadius, topRadius, height, segments)
Cone(bottomRadius, topRadius, height, segments) ==
    [vertices |-> <<>>, type |-> "Cone", bottomRadius |-> bottomRadius,
     topRadius |-> topRadius, height |-> height, segments |-> segments,
     meshGenerated |-> FALSE]

\* r * cos(i * (2 pi / n)) and r * sin(i * (2 pi / n))
TimesCos(r, i, n) == <<r, "cos", i, n>>
TimesSin(r, i, n) == <<r, "sin", i, n>>

\* the eight corners of Box::generateMesh
BoxCorners(b) ==
    <<Point3D(b.min[1], b.min[2], b.min[3]), Point3D(b.max[1], b.min[2], b.min[3]),
      Point3D(b.max[1], b.max[2], b.min[3]), Point3D(b.min[1], b.max[2], b.min[3]),
      Point3D(b.min[1], b.min[2], b.max[3]), Point3D(b.max[1], b.min[2], b.max[3]),
      Point3D(b.max[1], b.max[2], b.max[3]), Point3D(b.min[1], b.max[2], b.max[3])>>

\* for (int i = 0; i <= m_segments; ++i): a bottom and a top vertex per step
RingVertices(bottomRadius, topRadius, height, segments) ==
    [k \in 1..(2 * (segments + 1)) |->
        LET i == (k - 1) \div 2
        IN  IF k % 2 = 1
            THEN Point3D(TimesCos(bottomRadius, i, segments), -(height \div 2),
                         TimesSin(bottomRadius, i, segments))
            ELSE Point3D(TimesCos(topRadius, i, segments), height \div 2,
                         TimesSin(topRadius, i, segments))]

\* Sphere::generateMesh: stacks + 1 rows of slices + 1 vertices; lat is named
\* by (i, stacks) and lng by (j, slices)
SphereVertices(s) ==
    LET stacks == s.segments \div 2
        slices == s.segments
    IN  [k \in 1..((stacks + 1) * (slices + 1)) |->
            LET i == (k - 1) \div (slices + 1)
                j == (k - 1) % (slices + 1)
            IN  Point3D(<<s.center[1], s.radius, "cos lng", j, slices, "cos lat", i, stacks>>,
                        <<s.center[2], s.radius, "sin lng", j, slices, "cos lat", i, stacks>>,
                        <<s.center[3], s.radius, "sin lat", i, stacks>>)]

\* the vertex list generateMesh computes from the parameters of the primitive
MeshVertices(o) ==
    CASE o.type = "Box" -> BoxCorners(o)
      [] o.type = "Cylinder" -> RingVertices(o.radius, o.radius, o.height, o.segments)
      [] o.type = "Sphere" -> SphereVertices(o)
      [] o.type = "Cone" ->
            RingVertices(o.bottomRadius, o.topRadius, o.height, o.segments)

\* Box / Cylinder / Sphere / Cone ::generateMesh
generateMesh(o) ==
    IF o.meshGenerated THEN o
    ELSE [o EXCEPT !.vertices = MeshVertices(o), !.meshGenerated = TRUE]

\* a setParameters that leaves m_meshGenerated as it is
setCylinderParameters_KeepFlag(o, radius, height, segments) ==
    [o EXCEPT !.radius = radius, !.height = height, !.segments = segments]

\* Cylinder::setParameters
setCylinderParameters(o, radius, height, segments) ==
    [o EXCEPT !.radius = radius, !.height = height, !.segments = segments,
              !.meshGenerated = FALSE]

\* Sphere::setParameters
setSphereParameters(o, radius, segments) ==
    [o EXCEPT !.radius = radius, !.segments = segments, !.meshGenerated = FALSE]

\* Cone::setParameters
setConeParameters(o, bottomRadius, topRadius, height, segments) ==
    [o EXCEPT !.bottomRadius = bottomRadius, !.topRadius = topRadius,
              !.height = height, !.segments = segments, !.meshGenerated = FALSE]

Primitives == {"Box", "Cylinder", "Sphere", "Cone"}

\* the parameters handed in: radii of 0.5 and 1, heights of 1 and 2, and a
\* few segments
Radii == {1, 2}
Heights == {2, 4}
SegmentCounts == {2, 3}

\* GeometryManager::createCylinder / createSphere / createCone
CreateRound ==
    /\ Len(objects) < MaxObjects
    /\ \E o \in {Cylinder(1, 2, 2), Sphere(1, 2), Cone(1, 0, 2, 2)} :
        /\ objects' = Append(objects, o)
        /\ lastCall' = [op |-> "create", type |-> o.type]
    /\ ret' = Len(objects) + 1
    /\ UNCHANGED outsideCsg

\* Cylinder / Sphere / Cone ::setParameters on the primitive o
SetParameters ==
    \E o \in 1..Len(objects), radius \in Radii, height \in Heights,
       segments \in SegmentCounts :
        /\ objects[o].type \in {"Cylinder", "Sphere", "Cone"}
        /\ objects' =
               [objects EXCEPT ![o] =
                    CASE @.type = "Cylinder" ->
                            setCylinderParameters(@, radius, height, segments)
                      [] @.type = "Sphere" -> setSphereParameters(@, radius, segments)
                      [] @.type = "Cone" ->
                            setConeParameters(@, radius, 0, height, segments)]
        /\ lastCall' = [op |-> "setParameters", object |-> o, radius |-> radius,
                        height |-> height, segments |-> segments]
        /\ ret' = "void"
        /\ UNCHANGED outsideCsg

\* generateMesh() on the primitive o
GenerateMesh ==
    \E o \in 1..Len(objects) :
        /\ objects[o].type \in Primitives
        /\ objects' = [objects EXCEPT ![o] = generateMesh(@)]
        /\ lastCall' = [op |-> "generateMesh", object |-> o]
        /\ ret' = "void"
        /\ UNCHANGED outsideCsg

\* Spec: up to MaxPrimitives primitives under their setters and generateMesh
PrimitiveCreate == Len(objects) < MaxPrimitives /\ (CreateBox \/ CreateRound)

NextPrimitives == PrimitiveCreate \/ SetDimensions \/ SetParameters \/ GenerateMesh

SpecPrimitives == Init /\ [][NextPrimitives]_vars

----------------------------------------------------------------------------
(* Vocabulary of the properties.                                           *)

VertexIds == {m_vertices[i].id : i \in 1..Len(m_vertices)}
EdgeIds == {m_edges[i].id : i \in 1..Len(m_edges)}
FaceIds == {m_faces[i].id : i \in 1..Len(m_faces)}

\* the vertex after position i of a ring, cyclically
RingNext(ring, i) == ring[(i % Len(ring)) + 1]

\* a and b are cyclically consecutive, in either order, in the ring
Consecutive(ring, a, b) ==
    \E i \in 1..Len(ring) :
        \/ ring[i] = a /\ RingNext(ring, i) = b
        \/ ring[i] = b /\ RingNext(ring, i) = a

\* an undirected pair, as <<a, b>> with a <= b
Pair(a, b) == IF a <= b THEN <<a, b>> ELSE <<b, a>>

\* the undirected pairs that are consecutive in some face of the mesh
RingPairs ==
    UNION {{Pair(m_faces[f].vertices[i], RingNext(m_faces[f].vertices, i)) :
               i \in 1..Len(m_faces[f].vertices)} : f \in 1..Len(m_faces)}

EdgesBetween(a, b) ==
    {k \in 1..Len(m_edges) :
        \/ m_edges[k].vertex1 = a /\ m_edges[k].vertex2 = b
        \/ m_edges[k].vertex1 = b /\ m_edges[k].vertex2 = a}

\* some face index is below 0 or not below the number of vertices handed in
HasOutOfRangeIndex(vertices, faces) ==
    \E f \in 1..Len(faces) : \E i \in 1..Len(faces[f].vertexIndices) :
        faces[f].vertexIndices[i] < 0 \/ faces[f].vertexIndices[i] >= Len(vertices)

----------------------------------------------------------------------------
(* C3.  createFromGeometry fails when a face names a vertex index that is   *)
(* negative or not below the number of vertices handed in, and so never    *)
(* leaves the mesh with isValid() false.  (Original claim; the code        *)
(* violates it: the function is void and keeps the bad index.)             *)
C3_GeometryRejectsBadIndex ==
    lastCall.op = "createFromGeometry" =>
        /\ HasOutOfRangeIndex(lastCall.vertices, lastCall.faces) => ret = "error"
        /\ isValid

----------------------------------------------------------------------------
(* C6.  Ids are never reused on one MeshObject: the vertex, edge and face   *)
(* ids a createFromTriangles/createFromGeometry call assigns differ from   *)
(* the ids the mesh held from the call before.  (Original claim; the code  *)
(* violates it: every call counts from 0 again.)                           *)
C6_IdsNeverReused ==
    [][lastCall'.op \in {"createFromTriangles", "createFromGeometry"} =>
          /\ VertexIds' \cap VertexIds = {}
          /\ EdgeIds' \cap EdgeIds = {}
          /\ FaceIds' \cap FaceIds = {}]_vars

----------------------------------------------------------------------------
(* C7.  After buildTopology the edge list is exactly the set of undirected  *)
(* vertex pairs that are cyclically consecutive in some face ring: each     *)
(* such pair has exactly one Edge, every Edge is such a pair, and an        *)
(* Edge's adjacentFaces names exactly the faces in which its two           *)
(* endpoints are consecutive.                                              *)
C7_EdgesAreRingPairs ==
    /\ \A p \in RingPairs : Cardinality(EdgesBetween(p[1], p[2])) = 1
    /\ \A k \in 1..Len(m_edges) :
        LET a == m_edges[k].vertex1
            b == m_edges[k].vertex2
        IN  /\ Pair(a, b) \in RingPairs
            /\ Range(m_edges[k].adjacentFaces) =
                   {m_faces[f].id : f \in {g \in 1..Len(m_faces) :
                                             Consecutive(m_faces[g].vertices, a, b)}}

\* two faces run along the same pair of distinct vertices in opposite
\* directions and share one edge
C7_Witness ==
    /\ Len(m_faces) = 2
    /\ \E i \in 1..Len(m_faces[1].vertices), j \in 1..Len(m_faces[2].vertices) :
        LET a == m_faces[1].vertices[i]
            b == RingNext(m_faces[1].vertices, i)
        IN  /\ a # b
            /\ m_faces[2].vertices[j] = b
            /\ RingNext(m_faces[2].vertices, j) = a
            /\ \E k \in EdgesBetween(a, b) :
                   {0, 1} \subseteq Range(m_edges[k].adjacentFaces)

----------------------------------------------------------------------------
(* C8.  Adjacency counts tell boundary from interior edges: the box of      *)
(* createPrimitiveMesh (8 vertices, 6 quads) has 12 edges with 2 adjacent   *)
(* faces each, as has every edge of a mesh built by createFromGeometry      *)
(* from a closed manifold face list; a single triangle has 3 edges with 1   *)
(* adjacent face each.                                                     *)

\* no vertex twice in the ring, at least 3 vertices
SimpleRing(ring) ==
    /\ Len(ring) >= 3
    /\ \A i, j \in 1..Len(ring) : ring[i] = ring[j] => i = j

\* every consecutive pair of every ring is consecutive in exactly two faces
ClosedManifold(faces) ==
    /\ Len(faces) > 0
    /\ \A f \in 1..Len(faces) : SimpleRing(faces[f].vertexIndices)
    /\ \A f \in 1..Len(faces) : \A i \in 1..Len(faces[f].vertexIndices) :
        Cardinality({g \in 1..Len(faces) :
                        Consecutive(faces[g].vertexIndices,
                                    faces[f].vertexIndices[i],
                                    RingNext(faces[f].vertexIndices, i))}) = 2

AdjacentCounts == {Len(m_edges[k].adjacentFaces) : k \in 1..Len(m_edges)}

C8_AdjacencyCounts ==
    /\ lastCall = [op |-> "createPrimitiveMesh", type |-> "PRIMITIVE_BOX"] =>
        /\ Len(m_vertices) = 8
        /\ Len(m_faces) = 6
        /\ Len(m_edges) = 12
        /\ AdjacentCounts = {2}
    /\ (lastCall.op = "createFromGeometry" /\ ClosedManifold(lastCall.faces)) =>
        AdjacentCounts = {2}
    /\ (lastCall.op = "createFromTriangles" /\ Len(lastCall.triangles) = 1) =>
        (Len(m_edges) = 3 /\ AdjacentCounts = {1})
    /\ (/\ lastCall.op = "createFromGeometry"
        /\ Len(lastCall.faces) = 1
        /\ SimpleRing(lastCall.faces[1].vertexIndices)
        /\ Len(lastCall.faces[1].vertexIndices) = 3) =>
        (Len(m_edges) = 3 /\ AdjacentCounts = {1})

\* the box has been built
C8_Witness ==
    /\ lastCall = [op |-> "createPrimitiveMesh", type |-> "PRIMITIVE_BOX"]
    /\ Len(m_edges) = 12
    /\ \A k \in 1..12 : Len(m_edges[k].adjacentFaces) = 2

----------------------------------------------------------------------------
(* C9.  createFromTriangles always succeeds and rebuilds the mesh from      *)
(* scratch: for n triangles the mesh holds exactly 3n vertices with ids     *)
(* 0..3n-1 at the positions of the input in input order and exactly n       *)
(* faces with ids 0..n-1, face t being <<3t, 3t+1, 3t+2>>; nothing of the   *)
(* previous contents is left and isValid() is true.                        *)
C9_TrianglesRebuild ==
    lastCall.op = "createFromTriangles" =>
        LET tris == lastCall.triangles
            n == Len(tris)
        IN  /\ ret = "void"
            /\ Len(m_vertices) = 3 * n
            /\ Len(m_faces) = n
            /\ \A i \in 0..(3 * n - 1) : m_vertices[i + 1].id = i
            /\ \A t \in 0..(n - 1) :
                /\ m_vertices[3 * t + 1].position = tris[t + 1].v0
                /\ m_vertices[3 * t + 2].position = tris[t + 1].v1
                /\ m_vertices[3 * t + 3].position = tris[t + 1].v2
                /\ m_faces[t + 1].id = t
                /\ m_faces[t + 1].vertices = <<3 * t, 3 * t + 1, 3 * t + 2>>
            /\ isValid

\* two triangles with different corners have replaced a mesh
C9_Witness ==
    /\ lastCall.op = "createFromTriangles"
    /\ Len(lastCall.triangles) = 2
    /\ lastCall.triangles[1].v0 # lastCall.triangles[1].v1
    /\ lastCall.triangles[1] # lastCall.triangles[2]
    /\ Len(m_vertices) = 6

----------------------------------------------------------------------------
(* C1.  Selection sets and selected flags are in sync: an id is in          *)
(* getSelectedVertices() exactly when a vertex with that id exists and its  *)
(* selected flag is true, and likewise for edges and faces.  (Original      *)
(* claim; the code violates it: the select functions insert any id, and     *)
(* the create functions drop the flags and keep the sets.)                  *)
FlaggedIds(elems) == {elems[i].id : i \in {j \in 1..Len(elems) : elems[j].selected}}

C1_SelectionInSync ==
    /\ m_selectedVertices = FlaggedIds(m_vertices)
    /\ m_selectedEdges = FlaggedIds(m_edges)
    /\ m_selectedFaces = FlaggedIds(m_faces)

----------------------------------------------------------------------------
(* C2.  isValid() is true exactly when every vertex id named by a Face      *)
(* denotes an existing vertex (0 <= id < number of vertices).  Edges are    *)
(* not examined: a mesh whose edge list names a missing vertex while its    *)
(* faces are in range is reported valid.  (Amended claim.)                  *)
InRange(id) == 0 <= id /\ id < Len(m_vertices)

FacesInRange ==
    \A f \in 1..Len(m_faces) : \A i \in 1..Len(m_faces[f].vertices) :
        InRange(m_faces[f].vertices[i])

EdgesInRange ==
    \A k \in 1..Len(m_edges) :
        InRange(m_edges[k].vertex1) /\ InRange(m_edges[k].vertex2)

C2_ValidIffFacesInRange == isValid <=> FacesInRange

\* a face in range, an edge that names a missing vertex, and isValid() true
C2_Witness ==
    /\ Len(m_faces) > 0
    /\ Len(m_faces[1].vertices) > 0
    /\ FacesInRange
    /\ ~EdgesInRange
    /\ isValid

(* C2, original claim: isValid() is true exactly when every vertex id named *)
(* by a Face and by an Edge denotes an existing vertex, so a mesh whose     *)
(* edge list names a missing vertex is reported as not valid.               *)
C2_ValidIffFacesAndEdgesInRange == isValid <=> (FacesInRange /\ EdgesInRange)

----------------------------------------------------------------------------
(* C4.  An editing operator or an import that returns failure leaves the    *)
(* mesh unchanged: vertices, edges, faces and the three selection sets      *)
(* are what they were before the call.                                      *)
C4_FailureLeavesMeshUnchanged ==
    [][(lastCall'.op \in EditOps \cup ImportOps /\ ret' = FALSE) =>
          UNCHANGED <<geomVars, selVars>>]_vars

\* an operator has failed on the box while a face of it is selected
C4_Witness ==
    /\ lastCall.op \in EditOps
    /\ ret = FALSE
    /\ Len(m_faces) = 6
    /\ 0 \in m_selectedFaces
    /\ m_faces[1].selected

----------------------------------------------------------------------------
(* C10.  An editing operator called with an invalid argument returns        *)
(* failure and mutates nothing: extrudeFaces with an empty faceIds, with a  *)
(* face id the mesh does not hold or with a negative distance,             *)
(* decimateMesh with a ratio outside (0,1], and bridgeEdgeLoops with edge   *)
(* sets of different sizes.                                                *)

\* the call c has an invalid argument for the mesh it is made on; float
\* arguments are in tenths, so the ratio 1.0 is 10
InvalidArgument(c) ==
    \/ /\ c.op = "extrudeFaces"
       /\ \/ c.faceIds = {}
          \/ \E id \in c.faceIds : id \notin FaceIds
          \/ c.distance < 0
    \/ /\ c.op = "decimateMesh"
       /\ ~(0 < c.ratio /\ c.ratio <= 10)
    \/ /\ c.op = "bridgeEdgeLoops"
       /\ Cardinality(c.edgeIds1) # Cardinality(c.edgeIds2)

C10_InvalidArgumentFails ==
    [][InvalidArgument(lastCall') =>
          (ret' = FALSE /\ UNCHANGED <<geomVars, selVars>>)]_vars

\* extrudeFaces has been called on a one-face mesh with a face id it does
\* not hold, and has returned failure
C10_Witness ==
    /\ lastCall.op = "extrudeFaces"
    /\ Len(m_faces) = 1
    /\ 1 \in lastCall.faceIds
    /\ 1 \notin FaceIds
    /\ lastCall.distance > 0
    /\ ret = FALSE

----------------------------------------------------------------------------
(* C11.  A BooleanObject never serves a stale result: over any interleaving *)
(* of operand mutations (setDimensions) and evaluations (intersects),       *)
(* operands that are BooleanObjects included, what an evaluation returns    *)
(* is computed from the operands as they are at that moment (the ray        *)
(* origin is in A or B, in A and not B, in A and B), and no cached result   *)
(* is reused: m_result stays null.                                          *)

\* the ray origins, of those handed in, that lie in the object o as the
\* objects are now; a null operand holds none
RECURSIVE Solid(_)
Solid(o) ==
    IF o = 0 THEN {}
    ELSE IF objects[o].type = "Box"
    THEN {p \in Points : \A k \in 1..3 :
             objects[o].min[k] <= p[k] /\ p[k] <= objects[o].max[k]}
    ELSE IF objects[o].operation = "UNION"
    THEN Solid(objects[o].objectA) \cup Solid(objects[o].objectB)
    ELSE IF objects[o].operation = "DIFFERENCE"
    THEN Solid(objects[o].objectA) \ Solid(objects[o].objectB)
    ELSE Solid(objects[o].objectA) \cap Solid(objects[o].objectB)

----------------------------------------------------------------------------
(* C12.  getBoundingBoxMin() and getBoundingBoxMax() return, coordinate by  *)
(* coordinate, the least and the greatest value over all vertex positions:  *)
(* min <= max in every coordinate and every vertex lies inside the box; on  *)
(* a mesh without vertices both return the origin (0,0,0).                  *)

Max(S) == CHOOSE x \in S : \A y \in S : y <= x

\* the positions of the vertices of the mesh
Positions == {m_vertices[i].position : i \in 1..Len(m_vertices)}

\* the least (greatest) value of every coordinate over a set of positions
LeastCorner(P) ==
    <<Min({p[1] : p \in P}), Min({p[2] : p \in P}), Min({p[3] : p \in P})>>
GreatestCorner(P) ==
    <<Max({p[1] : p \in P}), Max({p[2] : p \in P}), Max({p[3] : p \in P})>>

C12_BoundingBox ==
    /\ lastCall.op = "getBoundingBoxMin" =>
           ret = IF Positions = {} THEN <<0, 0, 0>> ELSE LeastCorner(Positions)
    /\ lastCall.op = "getBoundingBoxMax" =>
           ret = IF Positions = {} THEN <<0, 0, 0>> ELSE GreatestCorner(Positions)
    /\ \A k \in 1..3 :
           /\ getBoundingBoxMin(m_vertices)[k] <= getBoundingBoxMax(m_vertices)[k]
           /\ \A p \in Positions :
                  /\ getBoundingBoxMin(m_vertices)[k] <= p[k]
                  /\ p[k] <= getBoundingBoxMax(m_vertices)[k]

\* a box whose corners are no vertex of the mesh, and not the origin
C12_Witness ==
    /\ lastCall.op = "getBoundingBoxMax"
    /\ ret \notin Positions \cup {<<0, 0, 0>>}
    /\ getBoundingBoxMin(m_vertices) \notin Positions \cup {<<0, 0, 0>>}

----------------------------------------------------------------------------
(* C13.  recalculateNormals() on a degenerate face does not fail and yields *)
(* a zero normal: after the call, every face with at least 3 vertices whose *)
(* first three vertex positions are collinear or coincident (the cross      *)
(* product of the two edge vectors is the zero vector) has the normal       *)
(* (0,0,0), whatever normal it held before; and the call ends the process   *)
(* only on a mesh with a read past the end of m_vertices.                   *)

\* the face f has at least 3 vertices, its first three are vertices of the
\* mesh, and the cross product of its two edge vectors is the zero vector
Degenerate(f) ==
    /\ Len(m_faces[f].vertices) >= 3
    /\ \A k \in 1..3 : IndexBelowSize(m_faces[f].vertices[k], Len(m_vertices))
    /\ LET v0 == m_vertices[m_faces[f].vertices[1] + 1].position
           v1 == m_vertices[m_faces[f].vertices[2] + 1].position
           v2 == m_vertices[m_faces[f].vertices[3] + 1].position
       IN  /\ (v1[2] - v0[2]) * (v2[3] - v0[3]) = (v1[3] - v0[3]) * (v2[2] - v0[2])
           /\ (v1[3] - v0[3]) * (v2[1] - v0[1]) = (v1[1] - v0[1]) * (v2[3] - v0[3])
           /\ (v1[1] - v0[1]) * (v2[2] - v0[2]) = (v1[2] - v0[2]) * (v2[1] - v0[1])

C13_DegenerateFaceZeroNormal ==
    /\ lastCall.op = "recalculateNormals" =>
           \A f \in 1..Len(m_faces) :
               Degenerate(f) => m_faces[f].normal = <<0, 0, 0>>
    /\ Crashed => BadReads(m_vertices, m_faces) # {}

\* the call has set the non-zero normal of a degenerate face to zero
C13_Witness ==
    /\ lastCall.op = "recalculateNormals"
    /\ \E f \in 1..Len(m_faces) :
           /\ Degenerate(f)
           /\ lastCall.faces[f].normal # <<0, 0, 0>>
           /\ m_faces[f].normal = <<0, 0, 0>>

----------------------------------------------------------------------------
(* C14.  recalculateNormals() is idempotent: a run that follows another run *)
(* with nothing in between leaves every face normal and every vertex normal *)
(* as the run before it produced them.                                      *)

C14_Idempotent ==
    [][(lastCall.op = "recalculateNormals" /\ lastCall'.op = "recalculateNormals")
          => (m_faces' = m_faces /\ m_vertices' = m_vertices)]_vars

\* the same, for the runs on a mesh without a read past the end of m_vertices
IdempotentInRange ==
    [][(/\ lastCall.op = "recalculateNormals"
        /\ lastCall'.op = "recalculateNormals"
        /\ BadReads(m_vertices, m_faces) = {})
          => (m_faces' = m_faces /\ m_vertices' = m_vertices)]_vars

----------------------------------------------------------------------------
(* C15.  extrudeFaces on a mesh that consists of a single face, for that    *)
(* face and with distance = 0, succeeds, leaves the bounding box unchanged  *)
(* and increases the face count by exactly the ring length of the face.     *)

C15_ExtrudeZeroDistance ==
    [][(/\ Len(m_faces) = 1
        /\ lastCall'.op = "extrudeFaces"
        /\ lastCall'.faceIds = {m_faces[1].id}
        /\ lastCall'.distance = 0)
          => (/\ ret' = TRUE
              /\ getBoundingBoxMin(m_vertices') = getBoundingBoxMin(m_vertices)
              /\ getBoundingBoxMax(m_vertices') = getBoundingBoxMax(m_vertices)
              /\ Len(m_faces') = Len(m_faces) + Len(m_faces[1].vertices))]_vars

----------------------------------------------------------------------------
(* C16.  mergeVertices on k >= 2 existing vertices at one position succeeds,*)
(* reduces the vertex count by exactly k - 1, leaves no face or edge        *)
(* reference to a merged vertex other than the one surviving id, and keeps  *)
(* the face count unless a face degenerates to fewer than 3 distinct        *)
(* vertices.                                                                *)

\* the ids are those of at least 2 vertices of the mesh, all at one position
Coincident(ids) ==
    /\ Cardinality(ids) >= 2
    /\ ids \subseteq VertexIds
    /\ \A i, j \in 1..Len(m_vertices) :
           (m_vertices[i].id \in ids /\ m_vertices[j].id \in ids)
               => m_vertices[i].position = m_vertices[j].position

\* a face of the mesh has fewer than 3 distinct vertices once the ids are one
Degenerates(ids) ==
    \E f \in 1..Len(m_faces) :
        Cardinality(Range(m_faces[f].vertices) \ ids) < 2
        /\ Range(m_faces[f].vertices) \cap ids # {}

C16_MergeCoincident ==
    [][(lastCall'.op = "mergeVertices" /\ Coincident(lastCall'.vertexIds))
          => (/\ ret' = TRUE
              /\ Len(m_vertices') = Len(m_vertices) - (Cardinality(lastCall'.vertexIds) - 1)
              /\ \E survivor \in lastCall'.vertexIds :
                     /\ \A f \in 1..Len(m_faces') :
                            Range(m_faces'[f].vertices) \cap lastCall'.vertexIds
                                \subseteq {survivor}
                     /\ \A e \in 1..Len(m_edges') :
                            {m_edges'[e].vertex1, m_edges'[e].vertex2}
                                \cap lastCall'.vertexIds \subseteq {survivor}
              /\ (Len(m_faces') = Len(m_faces) \/ Degenerates(lastCall'.vertexIds)))]_vars

----------------------------------------------------------------------------
(* C17.  On the unit cube mesh (8 vertices, 6 quad faces, 12 edges) with    *)
(* all edges selected, subdivideSelected succeeds and the mesh it leaves    *)
(* has exactly 20 vertices (every edge split once) or exactly 26 vertices   *)
(* (with face points), and never any other count.                           *)

\* the mesh is the unit cube and all its edges are selected
CubeAllEdgesSelected ==
    /\ [i \in 1..Len(m_vertices) |-> m_vertices[i].position] = BoxVertices
    /\ Len(m_faces) = 6
    /\ \A f \in 1..Len(m_faces) : Len(m_faces[f].vertices) = 4
    /\ Len(m_edges) = 12
    /\ m_selectedEdges = EdgeIds
    /\ \A e \in 1..Len(m_edges) : m_edges[e].selected

C17_SubdivideCube ==
    [][(lastCall'.op = "subdivideSelected" /\ CubeAllEdgesSelected)
          => (ret' = TRUE /\ Len(m_vertices') \in {20, 26})]_vars

----------------------------------------------------------------------------
(* C18.  booleanDifference of two axis-aligned unit cube meshes, the second *)
(* moved by (0.5,0,0) from the first, returns a mesh, not a null result;    *)
(* the mesh is valid and its bounding box is the first cube's.              *)

C18_DifferenceOfCubes ==
    (/\ lastCall.op = "booleanDifference"
     /\ [i \in 1..Len(m_vertices) |-> m_vertices[i].position] = BoxVertices
     /\ [i \in 1..Len(lastCall.meshB.vertices) |->
            lastCall.meshB.vertices[i].position] = MovedBoxVertices)
        => (/\ ret # "nullptr"
            /\ isValidMesh(ret.vertices, ret.faces)
            /\ getBoundingBoxMin(ret.vertices) = getBoundingBoxMin(m_vertices)
            /\ getBoundingBoxMax(ret.vertices) = getBoundingBoxMax(m_vertices))

----------------------------------------------------------------------------
(* C19.  OBJ round trip: for every valid mesh, exportOBJ succeeds, and the  *)
(* importOBJ of the written file that follows it succeeds and gives a mesh  *)
(* with the same vertex count and the same faces over the same vertices.    *)

\* the rings of the faces, as positions
FaceAdjacency(vertices, faces) ==
    {[i \in 1..Len(faces[f].vertices) |->
         vertices[faces[f].vertices[i] + 1].position] : f \in 1..Len(faces)}

C19_ObjRoundTrip ==
    /\ [][(lastCall'.op = "exportOBJ" /\ isValidMesh(m_vertices, m_faces))
             => ret' = TRUE]_vars
    /\ [][(/\ lastCall.op = "exportOBJ"
           /\ lastCall'.op = "importOBJ"
           /\ lastCall'.filename = lastCall.filename
           /\ isValidMesh(m_vertices, m_faces))
             => (/\ ret' = TRUE
                 /\ Len(m_vertices') = Len(m_vertices)
                 /\ FaceAdjacency(m_vertices', m_faces')
                        = FaceAdjacency(m_vertices, m_faces))]_vars

----------------------------------------------------------------------------
(* C20.  After createFromTriangles or createFromGeometry (createPrimitive-  *)
(* Mesh included, which calls it), the id of every element equals its       *)
(* position in its collection, counted from 0: vertices[i].id = i,          *)
(* faces[i].id = i and, after buildTopology, edges[i].id = i.               *)

CreateOps == {"createFromTriangles", "createFromGeometry", "createPrimitiveMesh"}

C20_IdIsPosition ==
    lastCall.op \in CreateOps =>
        /\ \A i \in 1..Len(m_vertices) : m_vertices[i].id = i - 1
        /\ \A i \in 1..Len(m_faces) : m_faces[i].id = i - 1
        /\ \A i \in 1..Len(m_edges) : m_edges[i].id = i - 1

\* a create call has left several vertices, faces and edges
C20_Witness ==
    /\ lastCall.op \in CreateOps
    /\ Len(m_vertices) >= 2
    /\ Len(m_faces) >= 2
    /\ Len(m_edges) >= 2

----------------------------------------------------------------------------
(* C21.  After buildTopology() on any face list that createFromGeometry     *)
(* accepts, faces with fewer than 3 vertices or with a repeated vertex in   *)
(* the ring included, no edge lists the same face id more than once in its  *)
(* adjacentFaces.                                                           *)

C21_NoRepeatedAdjacentFace ==
    lastCall.op = "createFromGeometry" =>
        \A e \in 1..Len(m_edges) :
            \A i, j \in 1..Len(m_edges[e].adjacentFaces) :
                m_edges[e].adjacentFaces[i] = m_edges[e].adjacentFaces[j] => i = j

----------------------------------------------------------------------------
(* C22.  A replacing selection leaves exactly one element selected across   *)
(* all granularities: after selectVertex(id, false), selectEdge(id, false)  *)
(* or selectFace(id, false) with the id of an existing element, the         *)
(* selection set of that granularity is {id}, the other two sets are empty, *)
(* and the only element whose selected flag is true is that one.            *)

\* the three selection sets and the three sets of flagged ids, in the order
\* vertices, edges, faces
SelectionSets == <<m_selectedVertices, m_selectedEdges, m_selectedFaces>>
FlagSets == <<FlaggedIds(m_vertices), FlaggedIds(m_edges), FlaggedIds(m_faces)>>

\* exactly the id is selected, in the granularity g (1, 2, 3)
OnlySelected(g, id) ==
    \A h \in 1..3 :
        /\ SelectionSets[h] = IF h = g THEN {id} ELSE {}
        /\ FlagSets[h] = IF h = g THEN {id} ELSE {}

C22_ReplacingSelection ==
    /\ (lastCall.op = "selectVertex" /\ ~lastCall.addToSelection
            /\ lastCall.id \in VertexIds) => OnlySelected(1, lastCall.id)
    /\ (lastCall.op = "selectEdge" /\ ~lastCall.addToSelection
            /\ lastCall.id \in EdgeIds) => OnlySelected(2, lastCall.id)
    /\ (lastCall.op = "selectFace" /\ ~lastCall.addToSelection
            /\ lastCall.id \in FaceIds) => OnlySelected(3, lastCall.id)

\* an edge other than the first has been selected alone in a mesh that has
\* vertices and faces as well
C22_Witness ==
    /\ lastCall.op = "selectEdge"
    /\ ~lastCall.addToSelection
    /\ lastCall.id \in EdgeIds
    /\ lastCall.id > 0
    /\ m_edges[lastCall.id + 1].selected
    /\ Len(m_vertices) > 0
    /\ Len(m_faces) > 0

\* C23: MeshManager::selectAll works on the current granularity only: in
\* VERTEX mode the vertex selection set becomes the set of all vertex ids, in
\* EDGE mode the edge set all edge ids, in FACE mode the face set all face
\* ids, the sets and flags of the other two granularities staying as they
\* were; in OBJECT mode and with a null mesh nothing changes.
AllIds(elems) == {elems[i].id : i \in 1..Len(elems)}

SelectAllScoped(g) ==
    /\ SelectionSets'[g] = AllIds(<<m_vertices, m_edges, m_faces>>[g])
    /\ \A h \in 1..3 :
           h # g => /\ SelectionSets'[h] = SelectionSets[h]
                    /\ FlagSets'[h] = FlagSets[h]

C23_SelectAllScoped ==
    [][lastCall'.op = "selectAll" =>
           IF lastCall'.mesh = "nullptr" \/ m_selectionMode = "OBJECT"
           THEN UNCHANGED meshVars
           ELSE SelectAllScoped(CASE m_selectionMode = "VERTEX" -> 1
                                  [] m_selectionMode = "EDGE" -> 2
                                  [] m_selectionMode = "FACE" -> 3)]_vars

\* what selectAll does hold to: every id of the granularity is in its set
\* afterwards, the set is exactly these ids when it named no other id before,
\* and the other granularities stay as they were
SelectAllFromInSync ==
    [][lastCall'.op = "selectAll" /\ lastCall'.mesh = "mesh"
       /\ m_selectionMode # "OBJECT" =>
           LET g == CASE m_selectionMode = "VERTEX" -> 1
                      [] m_selectionMode = "EDGE" -> 2
                      [] m_selectionMode = "FACE" -> 3
               ids == AllIds(<<m_vertices, m_edges, m_faces>>[g])
           IN  /\ ids \subseteq SelectionSets'[g]
               /\ SelectionSets[g] \subseteq ids => SelectAllScoped(g)]_vars

----------------------------------------------------------------------------
(* C24.  performUnion, performDifference and performIntersection each make *)
(* a BooleanObject that holds the operands A and B in the order given, with *)
(* the operation and the object type of the function's name; its            *)
(* intersects() answers (A or B) for UNION, (A and not B) for DIFFERENCE    *)
(* and (A and B) for INTERSECTION, a null operand counting as not hit.      *)

\* the operand x of a BooleanObject is hit at p; a null operand is not
Hit(x, p) == x # 0 /\ intersects(objects, x, p)

\* the answer of the operation named `operation` on operands a and b at p
Combined(operation, a, b, p) ==
    CASE operation = "UNION" -> Hit(a, p) \/ Hit(b, p)
      [] operation = "DIFFERENCE" -> Hit(a, p) /\ ~Hit(b, p)
      [] operation = "INTERSECTION" -> Hit(a, p) /\ Hit(b, p)

\* operation and object type that go with each function's name
Named ==
    [performUnion |-> <<"UNION", "BOOLEAN_UNION">>,
     performDifference |-> <<"DIFFERENCE", "BOOLEAN_DIFFERENCE">>,
     performIntersection |-> <<"INTERSECTION", "BOOLEAN_INTERSECTION">>]

\* C24: the object a perform function returns holds A, B, the operation and
\* the type of its name, and intersects() on any BooleanObject combines the
\* hits of its operands by its operation
C24_BooleanObject ==
    /\ lastCall.op \in Performs =>
           /\ objects[ret].type = "BooleanObject"
           /\ objects[ret].objectA = lastCall.objectA
           /\ objects[ret].objectB = lastCall.objectB
           /\ objects[ret].operation = Named[lastCall.op][1]
           /\ getType(objects[ret]) = Named[lastCall.op][2]
    /\ lastCall.op = "intersects" =>
           ret = Combined(objects[lastCall.object].operation,
                          objects[lastCall.object].objectA,
                          objects[lastCall.object].objectB, lastCall.rayOrigin)

\* a difference was hit whose A is hit and whose B, a BooleanObject with a
\* null operand A, is not
C24_Witness ==
    /\ lastCall.op = "intersects"
    /\ objects[lastCall.object].operation = "DIFFERENCE"
    /\ objects[lastCall.object].objectA # 0
    /\ objects[lastCall.object].objectB # 0
    /\ objects[objects[lastCall.object].objectB].type = "BooleanObject"
    /\ objects[objects[lastCall.object].objectB].objectA = 0
    /\ ret = TRUE

----------------------------------------------------------------------------
(* C25.  In CADViewer every object of the selected-objects list is also in  *)
(* the scene object list, after any sequence of addObject, removeObject,    *)
(* clearObjects, selectObject, selectAll, deselectAll, deleteSelected, the  *)
(* context menu's delete and the eraser's boolean subtraction.              *)

\* C25: what is selected is in the scene
C25_SelectedInScene == Range(m_selectedObjects) \subseteq Range(m_objects)

----------------------------------------------------------------------------
(* C26.  In CADViewer, whenever sketching is active the active tool is one  *)
(* of the three sketch tools, after any sequence of key actions, tool       *)
(* changes and mouse clicks.                                                *)

\* C26: m_isSketchingActive only under SKETCH_LINE, SKETCH_RECTANGLE or
\* SKETCH_CIRCLE
C26_SketchingUnderSketchTool == m_isSketchingActive => m_activeTool \in SketchTools

----------------------------------------------------------------------------
(* C27.  In CADViewer a request to place a shape arms a placement: after    *)
(* setActiveTool(PLACE_SHAPE) the placement state is not NONE, from every   *)
(* reachable state of the viewer, the one a right-click cancel of an        *)
(* earlier placement leaves included.                                       *)

\* C27: setActiveTool(PLACE_SHAPE) leaves a placement under way
C27_PlaceShapeArms ==
    lastCall.op = "setActiveTool" =>
        (lastCall.tool = "PLACE_SHAPE" => m_placementState # "NONE")

\* what setActiveTool(PLACE_SHAPE) does hold to: it arms a placement whenever
\* the tool was another one before
PlaceShapeArmsOnChange ==
    [][lastCall'.op = "setActiveTool" =>
           (lastCall'.tool = "PLACE_SHAPE" /\ m_activeTool # "PLACE_SHAPE"
                => m_placementState' = "SETTING_START_POINT")]_vars

----------------------------------------------------------------------------
(* C28.  In PartManager, after any sequence of createDocument,              *)
(* openDocument, closeDocument and setActiveDocument, the active document   *)
(* is null or one of the open documents, and it is null only when no        *)
(* document is open.                                                        *)

\* C28: the active document is an open one, and there is one whenever a
\* document is open
C28_ActiveIsOpen ==
    /\ m_activeDocument # 0 => m_activeDocument \in Range(m_documents)
    /\ m_activeDocument = 0 => m_documents = <<>>

\* a document that was not the first one has been closed while two others
\* stayed open, and the active one is not the first of the list
C28_Witness ==
    /\ lastCall.op = "closeDocument"
    /\ lastCall.document # 0
    /\ lastCall.document \notin Range(m_documents)
    /\ Len(m_documents) = 2
    /\ m_activeDocument = m_documents[2]

----------------------------------------------------------------------------
(* C29.  An object's parent pointer names an assembly only while that       *)
(* assembly holds the object: after any sequence of Assembly::addPart,      *)
(* removePart and removePartInstance, every object whose getParent() is the *)
(* assembly A is the part of a part instance of A.                          *)

\* the assembly a holds the object
Holds(a, object) ==
    \E i \in 1..Len(m_partInstances[a]) : m_partInstances[a][i].part = object

\* C29: the parent of an object holds it
C29_ParentHoldsPart ==
    \A object \in CADObjects : m_parent[object] # 0 => Holds(m_parent[object], object)

\* what addPart does hold to: an object that an assembly has taken in has a
\* parent, while no part has been removed
ParentHoldsPartWithoutRemoval ==
    [][lastCall'.op = "addPart" /\ C29_ParentHoldsPart => C29_ParentHoldsPart']_vars

----------------------------------------------------------------------------
(* C30.  A primitive's generated mesh is never stale after regeneration:    *)
(* for Box, Cylinder, Sphere and Cone, after any sequence of setDimensions  *)
(* / setParameters and generateMesh that ends with generateMesh, the stored *)
(* vertex list is the one computed from the current parameters; every       *)
(* parameter change clears the mesh-generated flag, and generateMesh skips  *)
(* the regeneration only while the flag is set.                             *)

\* the vertex list of the primitive o is the one of its parameters
Current(o) == objects[o].vertices = MeshVertices(objects[o])

\* C30: after generateMesh the vertex list is current and the flag set; after
\* a parameter change the flag is clear; and the flag is never set over a
\* vertex list of other parameters, so that a skipped regeneration skips
\* nothing
C30_MeshNeverStale ==
    /\ lastCall.op = "generateMesh" =>
           Current(lastCall.object) /\ objects[lastCall.object].meshGenerated
    /\ lastCall.op \in {"setDimensions", "setParameters"} =>
           ~objects[lastCall.object].meshGenerated
    /\ \A o \in 1..Len(objects) :
           objects[o].type \in Primitives /\ objects[o].meshGenerated => Current(o)

\* the mesh of a cylinder, sphere or cone has been generated under
\* parameters other than those it was made with
C30_Witness ==
    /\ lastCall.op = "generateMesh"
    /\ objects[lastCall.object].type \in {"Cylinder", "Sphere", "Cone"}
    /\ objects[lastCall.object].segments = 3
    /\ Len(objects[lastCall.object].vertices) > 0
    /\ Current(lastCall.object)

====
